---- MODULE Spec2Model ----
(***************************************************************************)
(* A model of the playspace crate (src/src/lib.rs, src/src/mutex.rs): one  *)
(* process-wide MUTEX, the process environment table, the process working  *)
(* directory and the directories on disk, shared by a few threads/tasks    *)
(* that enter a Playspace through new, try_new or new_async, use it, and   *)
(* leave it through exit or drop.                                          *)
(*                                                                         *)
(* A path is a sequence of components; Option<T> is a set with at most one *)
(* element ({} is None); an environment table is a function from the keys  *)
(* to a value or Absent.                                                   *)
(***************************************************************************)
EXTENDS Naturals, Sequences, FiniteSets

\* ---------------------------------------------------------------- bounds
NumThreads == 2
MaxPairs == 2
\* the longest relative path (in components) given to a write operation,
\* and the entries on disk (directories and files) beyond which no write
\* operation is called
MaxRelLen == 2
MaxEntries == 4
\* the most `..` components in a row in a path that goes into a
\* subdirectory and climbs back
MaxClimb == 2
\* the sessions of sync.rs and asynk.rs that are asked for in one run
MaxGuardSessions == 2

Threads == 1..NumThreads

\* ----------------------------------------------------------- environment
Keys == {"FOO", "BAR"}
Vals == {"old", "new"}
Absent == "<absent>"
EmptyEnv == [k \in Keys |-> Absent]
\* the tables the process may start with
InitEnvs == {[FOO |-> "old", BAR |-> Absent], [FOO |-> "old", BAR |-> "old"]}

\* the (key, Option<value>) pairs set_envs takes, in iteration order
PairSeqs == UNION {[1..n -> Keys \X (Vals \cup {Absent})] : n \in 1..MaxPairs}

\* ------------------------------------------------------------ filesystem
Home == <<"home">>
TempRoot == <<"tmp">>
TempNames == {"a", "b"}
SubdirName == "a_subdir"

IsPrefix(p, q) == Len(p) <= Len(q) /\ SubSeq(q, 1, Len(p)) = p

\* std::fs::remove_dir_all(p) on the set of directories ds
RemoveTree(ds, p) == {d \in ds : ~IsPrefix(p, d)}

\* no file on disk; and remove_dir_all(p) on the files fs
NoFiles == [p \in {} |-> ""]
RemoveFiles(fs, p) == [q \in {f \in DOMAIN fs : ~IsPrefix(p, f)} |-> fs[q]]

VARIABLES
    MUTEX,                \* TRUE while the static mutex is locked
    lock,                 \* lock[t]: thread t owns a Lock guard of MUTEX
    pc,                   \* where each thread is
    mode,                 \* the entry call each thread is inside ("none": in none)
    env,                  \* the process environment table
    cwd,                  \* the process working directory (a path)
    dirs,                 \* the directories that exist on disk
    files,                \* the files on disk: a function from path to contents
    saved_environment,    \* Playspace.saved_environment
    saved_current_dir,    \* Playspace.saved_current_dir (Option)
    directory,            \* Playspace.directory (the TempDir, Option)
    working_dir_result,   \* exit_internal's local
    temp_dir_result,      \* exit_internal's local
    how,                  \* what started the teardown ("exit", "drop", ...)
    executor,             \* executor[t]: the OS thread that runs t
    ret,                  \* what the step just taken returned, and to whom
    entry_env,            \* history: env when the lock was acquired
    entry_cwd,            \* history: cwd when the lock was acquired
    entry_resolved,       \* history: whether that directory existed then
    exit_diff,            \* history: the keys whose value differed from entry_env when the teardown began
    steps,                \* history: the teardown steps run so far, in order
    earlier_directories,  \* history: the scratch directories of the sessions that have begun their teardown
    guard_sessions        \* history: how many sessions of sync.rs and asynk.rs have been asked for

vars == <<MUTEX, lock, pc, mode, executor, env, cwd, dirs, files,
          saved_environment,
          saved_current_dir, directory, working_dir_result, temp_dir_result,
          how, ret, entry_env, entry_cwd, entry_resolved, exit_diff,
          steps, earlier_directories, guard_sessions>>

session_vars == <<saved_environment, saved_current_dir, directory,
                  working_dir_result, temp_dir_result, how>>
history_vars == <<entry_env, entry_cwd, entry_resolved, exit_diff, steps,
                  earlier_directories, guard_sessions>>
process_vars == <<env, cwd, dirs, files>>

\* a step in which no call returns, and one in which t's call returns v;
\* out: the value returned carries the result of the work closure
\* arg, path: the path a write operation was given, and the path its
\* OutsidePlayspace error carries
NoPath == [abs |-> FALSE, comps |-> <<>>]
NoReturn ==
    [by |-> 0, value |-> "none", out |-> FALSE, arg |-> NoPath, path |-> NoPath]
Return(t, v) ==
    [by |-> t, value |-> v, out |-> FALSE, arg |-> NoPath, path |-> NoPath]
ReturnOut(t, v, o) ==
    [by |-> t, value |-> v, out |-> o, arg |-> NoPath, path |-> NoPath]
ReturnWrite(t, v, a, p) ==
    [by |-> t, value |-> v, out |-> FALSE, arg |-> a, path |-> p]

\* std::env::current_dir().ok(): None when the working directory is gone
current_dir == IF cwd \in dirs THEN {cwd} ELSE {}

\* everything but the placement of the threads and the starting environment
InitProcess ==
    /\ MUTEX = FALSE
    /\ lock = [t \in Threads |-> FALSE]
    /\ pc = [t \in Threads |-> "idle"]
    /\ mode = [t \in Threads |-> "none"]
    /\ cwd = Home
    /\ dirs = {Home, TempRoot}
    /\ files = NoFiles
    /\ saved_environment = [t \in Threads |-> EmptyEnv]
    /\ saved_current_dir = [t \in Threads |-> {}]
    /\ directory = [t \in Threads |-> {}]
    /\ working_dir_result = [t \in Threads |-> "none"]
    /\ temp_dir_result = [t \in Threads |-> "none"]
    /\ how = [t \in Threads |-> "none"]
    /\ ret = NoReturn
    /\ entry_env = [t \in Threads |-> EmptyEnv]
    /\ entry_cwd = [t \in Threads |-> <<>>]
    /\ entry_resolved = [t \in Threads |-> FALSE]
    /\ exit_diff = [t \in Threads |-> {}]
    /\ steps = [t \in Threads |-> <<>>]
    /\ earlier_directories = {}
    /\ guard_sessions = 0

\* every caller is an OS thread of its own (src/tests/concurrency.rs)
Init ==
    /\ InitProcess
    /\ env \in InitEnvs
    /\ executor = [t \in Threads |-> t]

\* t can take a step: no other task of its OS thread is inside
\* blocking_lock(), which holds the whole thread until MUTEX is free
Runnable(t) ==
    \A u \in Threads \ {t} :
        executor[u] = executor[t] => pc[u] # "blocking_lock"

\* a step of t
Runs(t) == Runnable(t) /\ UNCHANGED executor


\* ------------------------------------------------------------- the mutex
\* whether MUTEX can be taken now: what try_lock, blocking_lock and
\* MUTEX.lock().await all test
CanLockBroken == TRUE
CanLock == ~MUTEX

\* a Lock guard of MUTEX comes into t's hands; from_lock starts
Acquire(t, m) ==
    /\ MUTEX' = TRUE
    /\ lock' = [lock EXCEPT ![t] = TRUE]
    /\ pc' = [pc EXCEPT ![t] = "from_lock"]
    /\ mode' = [mode EXCEPT ![t] = m]
    /\ ret' = NoReturn
    /\ entry_env' = [entry_env EXCEPT ![t] = env]
    /\ entry_cwd' = [entry_cwd EXCEPT ![t] = cwd]
    /\ entry_resolved' = [entry_resolved EXCEPT ![t] = cwd \in dirs]
    /\ UNCHANGED <<process_vars, session_vars, exit_diff, steps,
                   earlier_directories, guard_sessions>>

\* dropping t's Lock guard unlocks MUTEX
\* (mutant: the guard goes and MUTEX stays as it was)
ReleaseLockLeaksMutex(t) ==
    /\ lock' = [lock EXCEPT ![t] = FALSE]
    /\ MUTEX' = MUTEX
ReleaseLock(t) ==
    /\ lock' = [lock EXCEPT ![t] = FALSE]
    /\ MUTEX' = FALSE

\* the fields of a Playspace value that no longer exists
ClearSession(t) ==
    /\ saved_environment' = [saved_environment EXCEPT ![t] = EmptyEnv]
    /\ saved_current_dir' = [saved_current_dir EXCEPT ![t] = {}]
    /\ directory' = [directory EXCEPT ![t] = {}]
    /\ working_dir_result' = [working_dir_result EXCEPT ![t] = "none"]
    /\ temp_dir_result' = [temp_dir_result EXCEPT ![t] = "none"]
    /\ how' = [how EXCEPT ![t] = "none"]

ClearHistory(t) ==
    /\ entry_env' = [entry_env EXCEPT ![t] = EmptyEnv]
    /\ entry_cwd' = [entry_cwd EXCEPT ![t] = <<>>]
    /\ entry_resolved' = [entry_resolved EXCEPT ![t] = FALSE]
    /\ exit_diff' = [exit_diff EXCEPT ![t] = {}]
    /\ steps' = [steps EXCEPT ![t] = <<>>]
    /\ UNCHANGED <<earlier_directories, guard_sessions>>

\* ----------------------------------------------------------------- entry
\* the calls that run a work closure in the session and tear it down, and
\* the calls that apply set_envs before handing the session over
ScopedModes == {"scoped", "try_scoped", "scoped_with_envs", "scoped_async",
                "try_scoped_async", "scoped_with_envs_async"}
AsyncScopedModes == {"scoped_async", "try_scoped_async",
                     "scoped_with_envs_async"}
EnvsModes == {"with_envs", "with_envs_async", "scoped_with_envs",
              "scoped_with_envs_async"}

\* Playspace::new calls blocking_lock(): the thread waits for MUTEX
new(t) ==
    /\ Runs(t)
    /\ pc[t] = "idle"
    /\ pc' = [pc EXCEPT ![t] = "blocking_lock"]
    /\ mode' = [mode EXCEPT ![t] = "new"]
    /\ ret' = NoReturn
    /\ UNCHANGED <<MUTEX, lock, process_vars, session_vars, history_vars>>

\* Playspace::with_envs: Self::new()?, then out.set_envs(vars), Ok(out)
with_envs(t) ==
    /\ Runs(t)
    /\ pc[t] = "idle"
    /\ pc' = [pc EXCEPT ![t] = "blocking_lock"]
    /\ mode' = [mode EXCEPT ![t] = "with_envs"]
    /\ ret' = NoReturn
    /\ UNCHANGED <<MUTEX, lock, process_vars, session_vars, history_vars>>

\* Playspace::new_async awaits MUTEX.lock(): the task waits for MUTEX
\* (mutant: it waits with the blocking lock of new)
new_async_blocks(t) ==
    /\ Runs(t)
    /\ pc[t] = "idle"
    /\ pc' = [pc EXCEPT ![t] = "blocking_lock"]
    /\ mode' = [mode EXCEPT ![t] = "new_async"]
    /\ ret' = NoReturn
    /\ UNCHANGED <<MUTEX, lock, process_vars, session_vars, history_vars>>
new_async(t) ==
    /\ Runs(t)
    /\ pc[t] = "idle"
    /\ pc' = [pc EXCEPT ![t] = "lock_await"]
    /\ mode' = [mode EXCEPT ![t] = "new_async"]
    /\ ret' = NoReturn
    /\ UNCHANGED <<MUTEX, lock, process_vars, session_vars, history_vars>>

\* blocking_lock() returns the guard once MUTEX is free
\* (mutant: a reentrant lock, which the thread that holds it may take again)
blocking_lock_reentrant(t) ==
    /\ Runs(t)
    /\ pc[t] = "blocking_lock"
    /\ CanLock \/ lock[t]
    /\ Acquire(t, mode[t])
blocking_lock(t) ==
    /\ Runs(t)
    /\ pc[t] = "blocking_lock"
    /\ CanLock
    /\ Acquire(t, mode[t])

\* MUTEX.lock().await resolves to the guard once MUTEX is free
lock_await(t) ==
    /\ Runs(t)
    /\ pc[t] = "lock_await"
    /\ CanLock
    /\ Acquire(t, mode[t])

\* (mutants of try_new: one that waits for the lock like new, one that has
\* already changed directory when it finds the lock taken)
try_new_waits(t) ==
    /\ Runs(t)
    /\ pc[t] = "idle"
    /\ pc' = [pc EXCEPT ![t] = "blocking_lock"]
    /\ mode' = [mode EXCEPT ![t] = "try_new"]
    /\ ret' = NoReturn
    /\ UNCHANGED <<MUTEX, lock, process_vars, session_vars, history_vars>>
try_new_enters_first(t) ==
    /\ Runs(t)
    /\ pc[t] \in {"idle", "active"}
    /\ \/ /\ CanLock
          /\ pc[t] = "idle"
          /\ Acquire(t, "try_new")
       \/ /\ ~CanLock
          /\ ret' = Return(t, "AlreadyInSpace")
          /\ cwd' = TempRoot
          /\ UNCHANGED <<MUTEX, lock, pc, mode, env, dirs, files, session_vars,
                         history_vars>>

\* Playspace::try_new: try_lock().ok_or(AlreadyInSpace)?, then from_lock.
\* It may be called by any thread that is not inside another call, also by
\* the thread that holds the live Playspace.
try_new(t) ==
    /\ Runs(t)
    /\ pc[t] \in {"idle", "active"}
    /\ \/ /\ CanLock
          /\ pc[t] = "idle"
          /\ Acquire(t, "try_new")
       \/ /\ ~CanLock
          /\ ret' = Return(t, "AlreadyInSpace")
          /\ UNCHANGED <<MUTEX, lock, pc, mode, process_vars, session_vars,
                         history_vars>>

\* (mutant of from_lock: current_dir()? in place of current_dir().ok(), an
\* entry fails when the working directory cannot be resolved)
from_lock_requires_current_dir(t) ==
    /\ Runs(t)
    /\ pc[t] = "from_lock"
    /\ \/ /\ current_dir # {}
          /\ saved_environment' = [saved_environment EXCEPT ![t] = env]
          /\ saved_current_dir' = [saved_current_dir EXCEPT ![t] = current_dir]
          /\ pc' = [pc EXCEPT ![t] = "tempdir"]
          /\ ret' = NoReturn
          /\ UNCHANGED <<MUTEX, lock, mode, process_vars, directory,
                         working_dir_result, temp_dir_result, how,
                         history_vars>>
       \/ /\ current_dir = {}
          /\ ReleaseLock(t)
          /\ ClearSession(t)
          /\ ClearHistory(t)
          /\ pc' = [pc EXCEPT ![t] = "idle"]
          /\ mode' = [mode EXCEPT ![t] = "none"]
          /\ ret' = Return(t, "StdIo")
          /\ UNCHANGED process_vars

\* (mutant of from_lock: the environment is not collected)
from_lock_saves_no_environment(t) ==
    /\ Runs(t)
    /\ pc[t] = "from_lock"
    /\ saved_current_dir' = [saved_current_dir EXCEPT ![t] = current_dir]
    /\ pc' = [pc EXCEPT ![t] = "tempdir"]
    /\ ret' = NoReturn
    /\ UNCHANGED <<MUTEX, lock, mode, process_vars, directory,
                   saved_environment, working_dir_result, temp_dir_result,
                   how, history_vars>>

\* from_lock, lines 396-397: the snapshot of environment and directory
from_lock(t) ==
    /\ Runs(t)
    /\ pc[t] = "from_lock"
    /\ saved_environment' = [saved_environment EXCEPT ![t] = env]
    /\ saved_current_dir' = [saved_current_dir EXCEPT ![t] = current_dir]
    /\ pc' = [pc EXCEPT ![t] = "tempdir"]
    /\ ret' = NoReturn
    /\ UNCHANGED <<MUTEX, lock, mode, process_vars, directory,
                   working_dir_result, temp_dir_result, how, history_vars>>

\* (mutant of FromLockFails: the guard is not released)
FromLockFailsKeepsLock(t) ==
    /\ dirs' = IF directory[t] = {} THEN dirs
               ELSE RemoveTree(dirs, CHOOSE d \in directory[t] : TRUE)
    /\ files' = IF directory[t] = {} THEN files
                ELSE RemoveFiles(files, CHOOSE d \in directory[t] : TRUE)
    /\ UNCHANGED <<MUTEX, lock>>
    /\ ClearSession(t)
    /\ ClearHistory(t)
    /\ pc' = [pc EXCEPT ![t] = "idle"]
    /\ mode' = [mode EXCEPT ![t] = "none"]
    /\ ret' = Return(t, "StdIo")
    /\ UNCHANGED <<env, cwd>>

\* an entry call returns Err(StdIo): from_lock's locals are dropped, the
\* TempDir (if made) is removed best-effort and the Lock guard is released
FromLockFails(t) ==
    /\ dirs' = IF directory[t] = {} THEN dirs
               ELSE RemoveTree(dirs, CHOOSE d \in directory[t] : TRUE)
    /\ files' = IF directory[t] = {} THEN files
                ELSE RemoveFiles(files, CHOOSE d \in directory[t] : TRUE)
    /\ ReleaseLock(t)
    /\ ClearSession(t)
    /\ ClearHistory(t)
    /\ pc' = [pc EXCEPT ![t] = "idle"]
    /\ mode' = [mode EXCEPT ![t] = "none"]
    /\ ret' = Return(t, "StdIo")
    /\ UNCHANGED <<env, cwd>>

\* from_lock, line 399: tempdir()? makes a directory under the temporary
\* root whose name no existing entry has, or fails with an I/O error
tempdir(t) ==
    /\ Runs(t)
    /\ pc[t] = "tempdir"
    /\ \/ \E n \in TempNames :
            /\ TempRoot \o <<n>> \notin dirs
            /\ dirs' = dirs \cup {TempRoot \o <<n>>}
            /\ UNCHANGED files
            /\ directory' = [directory EXCEPT ![t] = {TempRoot \o <<n>>}]
            /\ pc' = [pc EXCEPT ![t] = "set_current_dir"]
            /\ ret' = NoReturn
            /\ UNCHANGED <<MUTEX, lock, mode, env, cwd, saved_environment,
                           saved_current_dir, working_dir_result,
                           temp_dir_result, how, history_vars>>
       \/ FromLockFails(t)

\* (mutant of set_current_dir: the session is returned without the working
\* directory having been changed)
set_current_dir_skipped(t) ==
    /\ Runs(t)
    /\ pc[t] = "set_current_dir"
    /\ pc' = [pc EXCEPT ![t] = IF mode[t] \in EnvsModes
                               THEN "with_envs" ELSE "active"]
    /\ mode' = [mode EXCEPT ![t] =
                   IF mode[t] \in ScopedModes \cup EnvsModes
                   THEN mode[t] ELSE "none"]
    /\ ret' = IF mode[t] \in ScopedModes \cup EnvsModes
              THEN NoReturn ELSE Return(t, "Playspace")
    /\ UNCHANGED <<MUTEX, lock, process_vars, session_vars, history_vars>>

\* from_lock, lines 402-409: set_current_dir(directory.path())?, then the
\* Playspace is returned: to the caller by new, try_new and new_async, to
\* the set_envs statement by the with_envs forms, to the work closure by the
\* scoped forms
set_current_dir(t) ==
    /\ Runs(t)
    /\ pc[t] = "set_current_dir"
    /\ \/ /\ directory[t] \subseteq dirs
          /\ cwd' = CHOOSE d \in directory[t] : TRUE
          /\ pc' = [pc EXCEPT ![t] = IF mode[t] \in EnvsModes
                                     THEN "with_envs" ELSE "active"]
          /\ mode' = [mode EXCEPT ![t] =
                         IF mode[t] \in ScopedModes \cup EnvsModes
                         THEN mode[t] ELSE "none"]
          /\ ret' = IF mode[t] \in ScopedModes \cup EnvsModes
                    THEN NoReturn ELSE Return(t, "Playspace")
          /\ UNCHANGED <<MUTEX, lock, env, dirs, files, session_vars, history_vars>>
       \/ /\ ~(directory[t] \subseteq dirs)
          /\ FromLockFails(t)

\* ------------------------------------------------------- inside a session
\* std::env::set_var / std::env::remove_var on a table
set_var(e, k, v) == [e EXCEPT ![k] = v]
remove_var(e, k) == [e EXCEPT ![k] = Absent]

\* set_envs' loop: the pairs applied in iteration order; a pair's second
\* component is a value (Some) or Absent (None)
RECURSIVE ApplyPairs(_, _)
\* (mutant: the first pair for a key wins)
ApplyPairsFirstWins(e, pairs) ==
    [k \in Keys |->
        IF \E i \in DOMAIN pairs : pairs[i][1] = k
        THEN pairs[CHOOSE i \in DOMAIN pairs :
                       /\ pairs[i][1] = k
                       /\ \A j \in DOMAIN pairs : pairs[j][1] = k => i <= j][2]
        ELSE e[k]]
ApplyPairs(e, pairs) ==
    IF pairs = <<>> THEN e
    ELSE ApplyPairs(IF pairs[1][2] = Absent
                    THEN remove_var(e, pairs[1][1])
                    ELSE set_var(e, pairs[1][1], pairs[1][2]),
                    Tail(pairs))

\* Playspace::set_envs(vars), for the pairs that vars yields
set_envs_of(t, pairs) ==
    /\ Runs(t)
    /\ pc[t] = "active"
    /\ env' = ApplyPairs(env, pairs)
    /\ ret' = NoReturn
    /\ UNCHANGED <<MUTEX, lock, pc, mode, cwd, dirs, files, session_vars, history_vars>>

\* Playspace::set_envs
set_envs(t) == \E pairs \in PairSeqs : set_envs_of(t, pairs)

\* the session's code changes the working directory (std::env::set_current_dir)
\* to the starting directory, the scratch directory or its subdirectory
session_chdir(t) ==
    /\ Runs(t)
    /\ pc[t] = "active"
    /\ \E d \in dirs \ {TempRoot} : cwd' = d
    /\ ret' = NoReturn
    /\ UNCHANGED <<MUTEX, lock, pc, mode, env, dirs, files, session_vars, history_vars>>

\* the session's code makes a subdirectory of the scratch directory
\* (std::fs::create_dir("a_subdir") with the scratch directory current)
session_mkdir(t) ==
    /\ Runs(t)
    /\ pc[t] = "active"
    /\ cwd \in directory[t]
    /\ cwd \in dirs
    /\ dirs' = dirs \cup {cwd \o <<SubdirName>>}
    /\ UNCHANGED files
    /\ ret' = NoReturn
    /\ UNCHANGED <<MUTEX, lock, pc, mode, env, cwd, session_vars, history_vars>>

\* ------------------------------------------------------------- teardown
\* exit_internal's statements, in program order
ExitOrderDirectoryFirst ==
    <<"restore_directory", "restore_environment", "close", "drop_lock">>
ExitOrderLockFirst ==
    <<"drop_lock", "restore_environment", "restore_directory", "close">>
ExitOrder ==
    <<"restore_environment", "restore_directory", "close", "drop_lock">>

ExitPcs == {ExitOrder[i] : i \in 1..Len(ExitOrder)}

\* the statement after `step`, whose result was `result` ("ok" or "err"):
\* exit_internal goes on whatever the result
NextExitPcStopOnError(step, result) ==
    IF result = "err" THEN "exit_return"
    ELSE LET i == CHOOSE j \in 1..Len(ExitOrder) : ExitOrder[j] = step
         IN IF i = Len(ExitOrder) THEN "exit_return" ELSE ExitOrder[i + 1]
NextExitPc(step, result) ==
    LET i == CHOOSE j \in 1..Len(ExitOrder) : ExitOrder[j] = step
    IN IF i = Len(ExitOrder) THEN "exit_return" ELSE ExitOrder[i + 1]

\* exit_internal, lines 617-626: the result from the two results
ExitResultLosesTempError(w, r) ==
    IF w = "ok"
    THEN (IF r = "ok" THEN "Ok" ELSE "TempDirRemoveFailed")
    ELSE "WorkingDirChangeFailed_None"
ExitResult(w, r) ==
    IF w = "ok"
    THEN (IF r = "ok" THEN "Ok" ELSE "TempDirRemoveFailed")
    ELSE (IF r = "ok" THEN "WorkingDirChangeFailed_None"
          ELSE "WorkingDirChangeFailed_Some")

\* what the caller gets: exit returns exit_internal's result (a scoped form
\* passes it on through `?`), drop discards it and returns (); a drop run by
\* an unwinding panic or by the cancellation of the task ends in the panic
\* going on, or in nothing
TeardownValue(h, w, r) ==
    IF h \in {"exit", "scoped"} THEN ExitResult(w, r)
    ELSE IF h = "unwind" THEN "panic"
    ELSE IF h = "cancel" THEN "cancelled"
    ELSE "()"

\* scoped, lines 258-260: `space.exit()?; Ok(out)`. The work's result is
\* returned only when exit returned Ok; on an exit error `?` returns the
\* error and out is dropped
ScopedOutWithError(h, w, r) == h = "scoped"
ScopedOut(h, w, r) == h = "scoped" /\ ExitResult(w, r) = "Ok"

\* Whether the Playspace value's destructor is suppressed once exit_internal
\* has returned. exit calls std::mem::forget(self) (line 600), so Drop::drop
\* does not run on the value exit consumed; Drop::drop itself is the
\* destructor, and the fields it took are ManuallyDrop or left empty, so
\* nothing runs after it. Without the forget, drop would run exit_internal
\* a second time on the consumed value.
forget_omitted(h) == h # "exit"
forget(h) == h \in {"exit", "scoped", "drop", "unwind", "cancel"}

\* One statement of exit_internal is done, with result `result`, leaving the
\* Playspace's fields and exit_internal's locals as in s. After the last
\* statement exit_internal returns, and exit or drop with it: the Playspace
\* value is gone.
Advance(t, step, result, s) ==
    LET nxt == NextExitPc(step, result)
    IN IF nxt = "exit_return" /\ ~forget(how[t])
       THEN /\ pc' = [pc EXCEPT ![t] = ExitOrder[1]]
            /\ how' = [how EXCEPT ![t] = "drop"]
            /\ steps' = [steps EXCEPT ![t] = Append(@, step)]
            /\ ret' = NoReturn
            /\ saved_environment' =
                   [saved_environment EXCEPT ![t] = s.saved_environment]
            /\ saved_current_dir' =
                   [saved_current_dir EXCEPT ![t] = s.saved_current_dir]
            /\ working_dir_result' =
                   [working_dir_result EXCEPT ![t] = s.working_dir_result]
            /\ temp_dir_result' =
                   [temp_dir_result EXCEPT ![t] = s.temp_dir_result]
            /\ UNCHANGED <<mode, directory, entry_env, entry_cwd,
                           entry_resolved, exit_diff, earlier_directories,
                           guard_sessions>>
       ELSE IF nxt = "exit_return"
       THEN /\ pc' = [pc EXCEPT ![t] = "idle"]
            /\ mode' = [mode EXCEPT ![t] = "none"]
            /\ ret' = ReturnOut(t,
                                TeardownValue(how[t], s.working_dir_result,
                                              s.temp_dir_result),
                                ScopedOut(how[t], s.working_dir_result,
                                          s.temp_dir_result))
            /\ ClearSession(t)
            /\ ClearHistory(t)
       ELSE /\ pc' = [pc EXCEPT ![t] = nxt]
            /\ steps' = [steps EXCEPT ![t] = Append(@, step)]
            /\ ret' = NoReturn
            /\ saved_environment' =
                   [saved_environment EXCEPT ![t] = s.saved_environment]
            /\ saved_current_dir' =
                   [saved_current_dir EXCEPT ![t] = s.saved_current_dir]
            /\ working_dir_result' =
                   [working_dir_result EXCEPT ![t] = s.working_dir_result]
            /\ temp_dir_result' =
                   [temp_dir_result EXCEPT ![t] = s.temp_dir_result]
            /\ UNCHANGED <<mode, directory, how, entry_env, entry_cwd,
                           entry_resolved, exit_diff, earlier_directories,
                           guard_sessions>>

\* the fields and locals as they are now
Fields(t) ==
    [saved_environment |-> saved_environment[t],
     saved_current_dir |-> saved_current_dir[t],
     working_dir_result |-> working_dir_result[t],
     temp_dir_result |-> temp_dir_result[t]]

BeginTeardown(t, h) ==
    /\ Runs(t)
    /\ pc[t] = "active"
    /\ pc' = [pc EXCEPT ![t] = ExitOrder[1]]
    /\ how' = [how EXCEPT ![t] = h]
    /\ ret' = NoReturn
    /\ exit_diff' = [exit_diff EXCEPT ![t] =
                        {k \in Keys : env[k] # entry_env[t][k]}]
    /\ UNCHANGED <<MUTEX, lock, mode, process_vars, saved_environment,
                   saved_current_dir, directory, working_dir_result,
                   temp_dir_result, entry_env, entry_cwd, entry_resolved,
                   steps>>
    /\ earlier_directories' = earlier_directories \cup directory[t]
    /\ UNCHANGED guard_sessions

\* Playspace::exit(self), called by the owner of the live value
exit(t) == mode[t] = "none" /\ BeginTeardown(t, "exit")

\* impl Drop for Playspace: the live value goes out of scope
DropReleasesOnly(t) ==
    /\ Runs(t)
    /\ pc[t] = "active"
    /\ pc' = [pc EXCEPT ![t] = "drop_lock"]
    /\ how' = [how EXCEPT ![t] = "drop"]
    /\ ret' = NoReturn
    /\ exit_diff' = [exit_diff EXCEPT ![t] =
                        {k \in Keys : env[k] # entry_env[t][k]}]
    /\ UNCHANGED <<MUTEX, lock, mode, process_vars, saved_environment,
                   saved_current_dir, directory, working_dir_result,
                   temp_dir_result, entry_env, entry_cwd, entry_resolved,
                   steps>>
    /\ earlier_directories' = earlier_directories \cup directory[t]
    /\ UNCHANGED guard_sessions
drop(t) == mode[t] = "none" /\ BeginTeardown(t, "drop")

\* restore_environment, first loop: every variable now set is reset to its
\* saved value (and taken out of the saved table) or, if not saved, unset
\* (mutant: a variable that is not in the saved table stays set)
RestorePass1KeepsAdded(e, saved) ==
    [env |-> [k \in Keys |->
                IF e[k] # Absent /\ saved[k] # Absent THEN saved[k] ELSE e[k]],
     saved |-> [k \in Keys |-> IF e[k] # Absent THEN Absent ELSE saved[k]]]
RestorePass1(e, saved) ==
    [env |-> [k \in Keys |->
                IF e[k] # Absent
                THEN (IF saved[k] # Absent THEN saved[k] ELSE Absent)
                ELSE e[k]],
     saved |-> [k \in Keys |-> IF e[k] # Absent THEN Absent ELSE saved[k]]]

\* restore_environment, second loop: every variable still in the saved table
\* is set to its saved value; the table is drained
RestorePass2(e, saved) ==
    [env |-> [k \in Keys |-> IF saved[k] # Absent THEN saved[k] ELSE e[k]],
     saved |-> EmptyEnv]

\* Playspace::restore_environment: the table it leaves
RestoreFirstLoopOnly(e, saved) == RestorePass1(e, saved).env
RestoreEnvironment(e, saved) ==
    LET one == RestorePass1(e, saved)
    IN RestorePass2(one.env, one.saved).env

\* the two loops of restore_environment run in the opposite order: the table
\* they would leave
RestoreOppositeOrder(e, saved) ==
    LET two == RestorePass2(e, saved)
    IN RestorePass1(two.env, two.saved).env

\* exit_internal, lines 606-607
restore_environment(t) ==
    /\ Runs(t)
    /\ pc[t] = "restore_environment"
    /\ env' = RestoreEnvironment(env, saved_environment[t])
    /\ Advance(t, "restore_environment", "ok",
               [Fields(t) EXCEPT !.saved_environment = EmptyEnv])
    /\ UNCHANGED <<MUTEX, lock, cwd, dirs, files>>

\* Playspace::restore_directory: the directory the process ends in and the
\* result, for a saved directory (Option), the current directory and the
\* directories on disk
RestoreDirectoryNoneOk(saved, c, ds) ==
    IF saved # {} /\ saved \subseteq ds
    THEN [cwd |-> CHOOSE d \in saved : TRUE, result |-> "ok"]
    ELSE [cwd |-> c, result |-> "ok"]
RestoreDirectoryKeepsCwd(saved, c, ds) ==
    IF saved # {} /\ saved \subseteq ds
    THEN [cwd |-> c, result |-> "ok"]
    ELSE [cwd |-> c, result |-> "err"]
RestoreDirectory(saved, c, ds) ==
    IF saved # {}
    THEN (IF saved \subseteq ds
          THEN [cwd |-> CHOOSE d \in saved : TRUE, result |-> "ok"]
          ELSE [cwd |-> c, result |-> "err"])
    ELSE [cwd |-> c, result |-> "err"]

\* exit_internal, lines 609-610
restore_directory(t) ==
    /\ Runs(t)
    /\ pc[t] = "restore_directory"
    /\ LET r == RestoreDirectory(saved_current_dir[t], cwd, dirs)
       IN /\ cwd' = r.cwd
          /\ Advance(t, "restore_directory", r.result,
                     [Fields(t) EXCEPT !.saved_current_dir = {},
                                       !.working_dir_result = r.result])
    /\ UNCHANGED <<MUTEX, lock, env, dirs, files>>

\* exit_internal, line 612: TempDir::close removes the scratch directory and
\* everything in it; it fails when the directory is no longer there
close(t) ==
    /\ Runs(t)
    /\ pc[t] = "close"
    /\ LET r == IF directory[t] \subseteq dirs THEN "ok" ELSE "err"
       IN Advance(t, "close", r, [Fields(t) EXCEPT !.temp_dir_result = r])
    /\ dirs' = IF directory[t] = {} THEN dirs
               ELSE RemoveTree(dirs, CHOOSE d \in directory[t] : TRUE)
    /\ files' = IF directory[t] = {} THEN files
                ELSE RemoveFiles(files, CHOOSE d \in directory[t] : TRUE)
    /\ UNCHANGED <<MUTEX, lock, env, cwd>>

\* exit_internal, line 615: drop(ManuallyDrop::take(&mut self.lock))
\* (mutant: the guard goes without MUTEX being unlocked)
drop_lock_keeps_mutex(t) ==
    /\ Runs(t)
    /\ pc[t] = "drop_lock"
    /\ lock' = [lock EXCEPT ![t] = FALSE]
    /\ UNCHANGED MUTEX
    /\ Advance(t, "drop_lock", "ok", Fields(t))
    /\ UNCHANGED process_vars
drop_lock(t) ==
    /\ Runs(t)
    /\ pc[t] = "drop_lock"
    /\ ReleaseLock(t)
    /\ Advance(t, "drop_lock", "ok", Fields(t))
    /\ UNCHANGED process_vars

\* ----------------------------------------------------------------- paths
\* A path given to a write operation: absolute or relative, and its
\* components, `..` among them. A path on disk (dirs, files, cwd) is the
\* sequence of the names from the root; <<>> is the root directory.
ParentDir == ".."
FileName == "f"
PathComps == {ParentDir, FileName, SubdirName}
\* into a subdirectory, n levels up, then a name
ClimbPaths ==
    {<<SubdirName>> \o [i \in 1..n |-> ParentDir] \o <<FileName>> :
        n \in 1..MaxClimb}
RelPaths == UNION {[1..n -> PathComps] : n \in 1..MaxRelLen} \cup ClimbPaths
AbsBases == {<<>>, Home, TempRoot} \cup {TempRoot \o <<n>> : n \in TempNames}
PathArgs ==
    {[abs |-> FALSE, comps |-> r] : r \in RelPaths} \cup
    {[abs |-> TRUE, comps |-> b \o r] : b \in AbsBases,
                                         r \in RelPaths \cup {<<>>}}
Contents == {"hello"}

\* Path::parent, and Path::ancestors: the path, its parent, ..., the root
Parent(p) == IF p = <<>> THEN <<>> ELSE SubSeq(p, 1, Len(p) - 1)
\* (mutant of Ancestors: the walk goes from the root down to the path)
AncestorsFromRoot(p) == [i \in 1..(Len(p) + 1) |-> SubSeq(p, 1, i - 1)]
Ancestors(p) == [i \in 1..(Len(p) + 1) |-> SubSeq(p, 1, Len(p) + 1 - i)]

\* The place a path names, `..` folded into what precedes it (the model
\* has no symbolic links; `..` of the root is the root)
RECURSIVE Fold(_, _)
Fold(done, rest) ==
    IF rest = <<>> THEN done
    ELSE Fold(IF Head(rest) = ParentDir THEN Parent(done)
              ELSE Append(done, Head(rest)),
              Tail(rest))
Normalized(p) == Fold(<<>>, p)

\* Path::starts_with: component-wise prefix
starts_with(p, base) == IsPrefix(base, p)

\* How the system resolves the components `rest` from the directory `cur`:
\* each step needs `cur` to be an existing directory; `..` goes to the
\* parent. why: "notfound" if a directory on the way does not exist,
\* "notdir" if a file stands there.
RECURSIVE Walk(_, _, _, _)
Walk(cur, rest, ds, fs) ==
    IF rest = <<>> THEN [ok |-> TRUE, path |-> cur, why |-> "ok"]
    ELSE IF cur # <<>> /\ cur \notin ds
    THEN [ok |-> FALSE, path |-> cur,
          why |-> IF cur \in DOMAIN fs THEN "notdir" ELSE "notfound"]
    ELSE Walk(IF Head(rest) = ParentDir THEN Parent(cur)
              ELSE Append(cur, Head(rest)),
              Tail(rest), ds, fs)
Resolve(p, ds, fs) == Walk(<<>>, p, ds, fs)

\* Path::exists, Path::is_dir and Path::canonicalize (of an existing path)
exists(p, ds, fs) ==
    LET r == Resolve(p, ds, fs)
    IN r.ok /\ (r.path = <<>> \/ r.path \in ds \/ r.path \in DOMAIN fs)
is_dir(p, ds, fs) ==
    LET r == Resolve(p, ds, fs)
    IN r.ok /\ (r.path = <<>> \/ r.path \in ds)
canonicalize(p, ds, fs) == Resolve(p, ds, fs).path

\* the relative path taken from the working directory of the process
join_current_dir(dir, rel) == cwd \o rel
\* Path::join of the scratch directory and a relative path
join(dir, rel) == dir \o rel

\* Playspace::playspace_path, for the scratch directory dir: Ok with the
\* path to write to, OutsidePlayspace with the requested path, or the I/O
\* error of canonicalize (the scratch directory is gone)
playspace_path(dir, path, ds, fs) ==
    IF ~path.abs
    THEN [result |-> "Ok", path |-> join(dir, path.comps)]
    ELSE LET anc == Ancestors(path.comps)
             found == {i \in DOMAIN anc : exists(anc[i], ds, fs)}
         IN IF found = {}
            THEN [result |-> "OutsidePlayspace", path |-> path.comps]
            ELSE LET first == CHOOSE i \in found : \A j \in found : i <= j
                 IN IF ~exists(dir, ds, fs)
                    THEN [result |-> "StdIo", path |-> path.comps]
                    ELSE IF ~starts_with(canonicalize(anc[first], ds, fs),
                                         canonicalize(dir, ds, fs))
                    THEN [result |-> "OutsidePlayspace", path |-> path.comps]
                    ELSE [result |-> "Ok", path |-> path.comps]

\* std::fs::write / File::create on the path p: the file it creates or
\* truncates, if the directory that is to hold it exists and p does not
\* name a directory
WriteTarget(p, ds, fs) ==
    IF p = <<>> \/ p[Len(p)] = ParentDir
    THEN [ok |-> FALSE, path |-> <<>>]
    ELSE LET up == Resolve(Parent(p), ds, fs)
             target == Append(up.path, p[Len(p)])
         IN IF up.ok /\ (up.path = <<>> \/ up.path \in ds) /\ target \notin ds
            THEN [ok |-> TRUE, path |-> target]
            ELSE [ok |-> FALSE, path |-> <<>>]

\* mkdir(p): the directories afterwards, and "ok", "notfound" (a directory
\* on the way is missing) or "other" (it exists already, or a file is in
\* the way)
Mkdir(p, ds, fs) ==
    IF p = <<>> THEN [r |-> "other", dirs |-> ds]
    ELSE LET up == Resolve(Parent(p), ds, fs)
             target == Append(up.path, p[Len(p)])
         IN IF ~up.ok
            THEN [r |-> IF up.why = "notfound" THEN "notfound" ELSE "other",
                  dirs |-> ds]
            ELSE IF up.path # <<>> /\ up.path \notin ds
            THEN [r |-> IF up.path \in DOMAIN fs THEN "other" ELSE "notfound",
                  dirs |-> ds]
            ELSE IF p[Len(p)] = ParentDir \/ target \in ds
                    \/ target \in DOMAIN fs
            THEN [r |-> "other", dirs |-> ds]
            ELSE [r |-> "ok", dirs |-> ds \cup {target}]

\* std::fs::create_dir_all(p): mkdir(p); if a parent is missing, the same
\* for Path::parent(p) and then mkdir(p) again; an error of mkdir counts as
\* success when p is a directory. Directories made before a failure stay.
RECURSIVE CreateDirAll(_, _, _)
CreateDirAll(p, ds, fs) ==
    LET m == Mkdir(p, ds, fs)
    IN IF m.r = "ok" THEN [ok |-> TRUE, dirs |-> m.dirs]
       ELSE IF m.r = "other" THEN [ok |-> is_dir(p, ds, fs), dirs |-> ds]
       ELSE IF p = <<>> THEN [ok |-> FALSE, dirs |-> ds]
       ELSE LET up == CreateDirAll(Parent(p), ds, fs)
            IN IF ~up.ok THEN up
               ELSE LET again == Mkdir(p, up.dirs, fs)
                    IN IF again.r = "ok"
                       THEN [ok |-> TRUE, dirs |-> again.dirs]
                       ELSE [ok |-> is_dir(p, up.dirs, fs), dirs |-> up.dirs]

\* a write operation is called on t's live Playspace
CanWrite(t) ==
    /\ Runnable(t)
    /\ pc[t] = "active"
    /\ Cardinality(dirs) + Cardinality(DOMAIN files) < MaxEntries

\* what a write operation leaves alone
WriteFrame ==
    UNCHANGED <<MUTEX, lock, pc, mode, executor, env, cwd, session_vars,
                history_vars>>

\* Playspace::write_file(path, contents)
write_file(t) ==
    /\ CanWrite(t)
    /\ \E path \in PathArgs, c \in Contents, dir \in directory[t] :
          LET r == playspace_path(dir, path, dirs, files)
              w == WriteTarget(r.path, dirs, files)
          IN IF r.result # "Ok"
             THEN /\ ret' = ReturnWrite(t, r.result, path,
                                        [abs |-> path.abs, comps |-> r.path])
                  /\ UNCHANGED <<dirs, files>>
             ELSE IF ~w.ok
             THEN /\ ret' = ReturnWrite(t, "StdIo", path, NoPath)
                  /\ UNCHANGED <<dirs, files>>
             ELSE /\ ret' = ReturnWrite(t, "Ok", path, NoPath)
                  /\ files' = [q \in DOMAIN files \cup {w.path} |->
                                  IF q = w.path THEN c ELSE files[q]]
                  /\ UNCHANGED dirs
    /\ WriteFrame

\* Playspace::create_file(path): File::create makes the file empty
create_file(t) ==
    /\ CanWrite(t)
    /\ \E path \in PathArgs, dir \in directory[t] :
          LET r == playspace_path(dir, path, dirs, files)
              w == WriteTarget(r.path, dirs, files)
          IN IF r.result # "Ok"
             THEN /\ ret' = ReturnWrite(t, r.result, path,
                                        [abs |-> path.abs, comps |-> r.path])
                  /\ UNCHANGED <<dirs, files>>
             ELSE IF ~w.ok
             THEN /\ ret' = ReturnWrite(t, "StdIo", path, NoPath)
                  /\ UNCHANGED <<dirs, files>>
             ELSE /\ ret' = ReturnWrite(t, "File", path, NoPath)
                  /\ files' = [q \in DOMAIN files \cup {w.path} |->
                                  IF q = w.path THEN "" ELSE files[q]]
                  /\ UNCHANGED dirs
    /\ WriteFrame

\* Playspace::create_dir_all(path)
create_dir_all(t) ==
    /\ CanWrite(t)
    /\ \E path \in PathArgs, dir \in directory[t] :
          LET r == playspace_path(dir, path, dirs, files)
              m == CreateDirAll(r.path, dirs, files)
          IN IF r.result # "Ok"
             THEN /\ ret' = ReturnWrite(t, r.result, path,
                                        [abs |-> path.abs, comps |-> r.path])
                  /\ UNCHANGED <<dirs, files>>
             ELSE /\ ret' = ReturnWrite(t, IF m.ok THEN "Ok" ELSE "StdIo",
                                        path, NoPath)
                  /\ dirs' = m.dirs
                  /\ UNCHANGED files
    /\ WriteFrame

\* --------------------------------------------------------- scoped forms
\* Playspace::scoped: Self::new()?, f(&mut space), space.exit()?, Ok(out)
scoped(t) ==
    /\ Runs(t)
    /\ pc[t] = "idle"
    /\ pc' = [pc EXCEPT ![t] = "blocking_lock"]
    /\ mode' = [mode EXCEPT ![t] = "scoped"]
    /\ ret' = NoReturn
    /\ UNCHANGED <<MUTEX, lock, process_vars, session_vars, history_vars>>

\* Playspace::scoped_with_envs: Self::with_envs(vars)?, then as scoped
scoped_with_envs(t) ==
    /\ Runs(t)
    /\ pc[t] = "idle"
    /\ pc' = [pc EXCEPT ![t] = "blocking_lock"]
    /\ mode' = [mode EXCEPT ![t] = "scoped_with_envs"]
    /\ ret' = NoReturn
    /\ UNCHANGED <<MUTEX, lock, process_vars, session_vars, history_vars>>

\* Playspace::try_scoped: Self::try_new()?, then as scoped
\* (mutant: the entry is that of scoped, Self::new()?, which waits)
try_scoped_waits(t) ==
    /\ Runs(t)
    /\ pc[t] = "idle"
    /\ pc' = [pc EXCEPT ![t] = "blocking_lock"]
    /\ mode' = [mode EXCEPT ![t] = "try_scoped"]
    /\ ret' = NoReturn
    /\ UNCHANGED <<MUTEX, lock, process_vars, session_vars, history_vars>>
try_scoped(t) ==
    /\ Runs(t)
    /\ pc[t] \in {"idle", "active"}
    /\ \/ /\ CanLock
          /\ pc[t] = "idle"
          /\ Acquire(t, "try_scoped")
       \/ /\ ~CanLock
          /\ ret' = Return(t, "AlreadyInSpace")
          /\ UNCHANGED <<MUTEX, lock, pc, mode, process_vars, session_vars,
                         history_vars>>

\* Playspace::try_scoped_async: Self::try_new()?, f(&mut space).await,
\* space.exit()?, Ok(out)
try_scoped_async(t) ==
    /\ Runs(t)
    /\ pc[t] \in {"idle", "active"}
    /\ \/ /\ CanLock
          /\ pc[t] = "idle"
          /\ Acquire(t, "try_scoped_async")
       \/ /\ ~CanLock
          /\ ret' = Return(t, "AlreadyInSpace")
          /\ UNCHANGED <<MUTEX, lock, pc, mode, process_vars, session_vars,
                         history_vars>>

\* Playspace::scoped_async: Self::new_async().await?, f(&mut space).await,
\* space.exit()?, Ok(out)
scoped_async(t) ==
    /\ Runs(t)
    /\ pc[t] = "idle"
    /\ pc' = [pc EXCEPT ![t] = "lock_await"]
    /\ mode' = [mode EXCEPT ![t] = "scoped_async"]
    /\ ret' = NoReturn
    /\ UNCHANGED <<MUTEX, lock, process_vars, session_vars, history_vars>>

\* Playspace::with_envs_async, lines 789-798: `Self::new()?`, the blocking
\* entry, then set_envs. blocking_lock() holds the OS thread until MUTEX is
\* free; called on a thread that drives a Tokio runtime it panics instead
\* (tokio's blocking_lock refuses to block a runtime thread).
with_envs_async(t) ==
    /\ Runs(t)
    /\ pc[t] = "idle"
    /\ \/ /\ pc' = [pc EXCEPT ![t] = "blocking_lock"]
          /\ mode' = [mode EXCEPT ![t] = "with_envs_async"]
          /\ ret' = NoReturn
       \/ /\ ret' = Return(t, "panic")
          /\ UNCHANGED <<pc, mode>>
    /\ UNCHANGED <<MUTEX, lock, process_vars, session_vars, history_vars>>

\* Playspace::scoped_with_envs_async: Self::with_envs_async(vars).await?,
\* f(&mut space).await, space.exit()?, Ok(out)
scoped_with_envs_async(t) ==
    /\ Runs(t)
    /\ pc[t] = "idle"
    /\ \/ /\ pc' = [pc EXCEPT ![t] = "blocking_lock"]
          /\ mode' = [mode EXCEPT ![t] = "scoped_with_envs_async"]
          /\ ret' = NoReturn
       \/ /\ ret' = Return(t, "panic")
          /\ UNCHANGED <<pc, mode>>
    /\ UNCHANGED <<MUTEX, lock, process_vars, session_vars, history_vars>>

\* with_envs, lines 362-364 (and with_envs_async, 795-797): out.set_envs(vars)
\* on the new session, which then goes to the caller or to the work closure
\* (mutant: the snapshot is taken when the overrides have been applied)
with_envs_snapshot_after(t, pairs) ==
    /\ Runs(t)
    /\ pc[t] = "with_envs"
    /\ env' = ApplyPairs(env, pairs)
    /\ saved_environment' = [saved_environment EXCEPT ![t] = env']
    /\ pc' = [pc EXCEPT ![t] = "active"]
    /\ mode' = [mode EXCEPT ![t] = IF mode[t] \in ScopedModes
                                   THEN mode[t] ELSE "none"]
    /\ ret' = IF mode[t] \in ScopedModes
              THEN NoReturn ELSE Return(t, "Playspace")
    /\ UNCHANGED <<MUTEX, lock, cwd, dirs, files, saved_current_dir,
                   directory, working_dir_result, temp_dir_result, how,
                   history_vars>>
with_envs_set_envs_of(t, pairs) ==
    /\ Runs(t)
    /\ pc[t] = "with_envs"
    /\ env' = ApplyPairs(env, pairs)
    /\ pc' = [pc EXCEPT ![t] = "active"]
    /\ mode' = [mode EXCEPT ![t] = IF mode[t] \in ScopedModes
                                   THEN mode[t] ELSE "none"]
    /\ ret' = IF mode[t] \in ScopedModes
              THEN NoReturn ELSE Return(t, "Playspace")
    /\ UNCHANGED <<MUTEX, lock, cwd, dirs, files, session_vars, history_vars>>

with_envs_set_envs(t) == \E pairs \in PairSeqs : with_envs_set_envs_of(t, pairs)

\* the work closure of a scoped form returns: the form calls space.exit()
work_returns(t) ==
    /\ mode[t] \in ScopedModes
    /\ BeginTeardown(t, "scoped")

\* the work closure of a scoped form panics: the unwinding drops `space`
\* (mutant: the session is leaked, no destructor runs)
work_panics_leaks(t) ==
    /\ Runs(t)
    /\ mode[t] \in ScopedModes
    /\ pc[t] = "active"
    /\ pc' = [pc EXCEPT ![t] = "idle"]
    /\ mode' = [mode EXCEPT ![t] = "none"]
    /\ ret' = Return(t, "panic")
    /\ UNCHANGED <<MUTEX, lock, process_vars, session_vars, history_vars>>
work_panics(t) ==
    /\ mode[t] \in ScopedModes
    /\ BeginTeardown(t, "unwind")

\* the task that runs the work of an async scoped form, or that owns a live
\* Playspace, is cancelled at an await point: its future is dropped, and
\* the Playspace in it
\* (mutant: the future is dropped without the destructor of the Playspace)
cancel_leaks(t) ==
    /\ Runs(t)
    /\ mode[t] \in AsyncScopedModes \cup {"none"}
    /\ pc[t] = "active"
    /\ pc' = [pc EXCEPT ![t] = "idle"]
    /\ mode' = [mode EXCEPT ![t] = "none"]
    /\ ret' = Return(t, "cancelled")
    /\ UNCHANGED <<MUTEX, lock, process_vars, session_vars, history_vars>>
cancel(t) ==
    /\ mode[t] \in AsyncScopedModes \cup {"none"}
    /\ BeginTeardown(t, "cancel")

\* the task is cancelled while MUTEX.lock().await is pending: the Acquire
\* future is dropped and leaves the wait queue
\* (mutant: the cancelled wait leaves MUTEX locked)
cancel_wait_locks(t) ==
    /\ Runs(t)
    /\ pc[t] = "lock_await"
    /\ pc' = [pc EXCEPT ![t] = "idle"]
    /\ mode' = [mode EXCEPT ![t] = "none"]
    /\ ret' = Return(t, "abandoned")
    /\ MUTEX' = TRUE
    /\ UNCHANGED <<lock, process_vars, session_vars, history_vars>>
cancel_wait(t) ==
    /\ Runs(t)
    /\ pc[t] = "lock_await"
    /\ pc' = [pc EXCEPT ![t] = "idle"]
    /\ mode' = [mode EXCEPT ![t] = "none"]
    /\ ret' = Return(t, "abandoned")
    /\ UNCHANGED <<MUTEX, lock, process_vars, session_vars, history_vars>>

\* ------------------------------------------------------- nested entries
\* Playspace::new called by the thread that owns the live Playspace (doc
\* comment of new, lines 327-329; the commented-out `space2` of its
\* example): blocking_lock() is entered with the guard still in the
\* thread's hands, and the session stays as it is
new_holding_playspace(t) ==
    /\ Runs(t)
    /\ pc[t] = "active"
    /\ pc' = [pc EXCEPT ![t] = "blocking_lock"]
    /\ mode' = [mode EXCEPT ![t] = "new"]
    /\ ret' = NoReturn
    /\ UNCHANGED <<MUTEX, lock, process_vars, session_vars, history_vars>>

\* Playspace::scoped called the same way: Self::new()? is its first statement
scoped_holding_playspace(t) ==
    /\ Runs(t)
    /\ pc[t] = "active"
    /\ pc' = [pc EXCEPT ![t] = "blocking_lock"]
    /\ mode' = [mode EXCEPT ![t] = "scoped"]
    /\ ret' = NoReturn
    /\ UNCHANGED <<MUTEX, lock, process_vars, session_vars, history_vars>>

\* ---------------------------------------------------------- environment
\* something outside the sessions removes a directory and what is in it:
\* the starting directory or a scratch directory (the temporary root stays)
external_remove ==
    /\ \E d \in dirs \ {TempRoot} :
          /\ Len(d) <= Len(TempRoot) + 1
          /\ dirs' = RemoveTree(dirs, d)
          /\ files' = RemoveFiles(files, d)
    /\ ret' = NoReturn
    /\ UNCHANGED <<MUTEX, lock, pc, mode, executor, env, cwd, session_vars,
                   history_vars>>

Next ==
    \/ \E t \in Threads :
        \/ new(t)
        \/ new_async(t)
        \/ blocking_lock(t)
        \/ lock_await(t)
        \/ try_new(t)
        \/ from_lock(t)
        \/ tempdir(t)
        \/ set_current_dir(t)
        \/ set_envs(t)
        \/ session_chdir(t)
        \/ session_mkdir(t)
        \/ exit(t)
        \/ drop(t)
        \/ restore_environment(t)
        \/ restore_directory(t)
        \/ close(t)
        \/ drop_lock(t)
    \/ external_remove

Spec == Init /\ [][Next]_vars

\* The scoped forms, and the cancellation of async tasks: every caller is a
\* thread or a task on a thread of its own. Here the environment is changed
\* by the set_envs of scoped_with_envs, the working directory by the work.
ScopedInit ==
    /\ InitProcess
    /\ env = [FOO |-> "old", BAR |-> Absent]
    /\ executor = [t \in Threads |-> t]

ScopedNext ==
    \/ \E t \in Threads :
        \/ scoped(t)
        \/ try_scoped(t)
        \/ try_scoped_async(t)
        \/ scoped_with_envs(t)
        \/ scoped_async(t)
        \/ new_async(t)
        \/ blocking_lock(t)
        \/ lock_await(t)
        \/ cancel_wait(t)
        \/ from_lock(t)
        \/ tempdir(t)
        \/ set_current_dir(t)
        \/ with_envs_set_envs(t)
        \/ session_chdir(t)
        \/ work_returns(t)
        \/ work_panics(t)
        \/ cancel(t)
        \/ exit(t)
        \/ restore_environment(t)
        \/ restore_directory(t)
        \/ close(t)
        \/ drop_lock(t)
    \/ external_remove

ScopedSpec == ScopedInit /\ [][ScopedNext]_vars

\* Async callers: every caller is a task, and all the tasks run on one
\* executor thread (as under async_std::test or a current-thread runtime,
\* src/tests/async-std.rs).
AsyncInit ==
    /\ InitProcess
    /\ env = [FOO |-> "old", BAR |-> Absent]
    /\ executor = [t \in Threads |-> 1]

AsyncNext ==
    \E t \in Threads :
        \/ new_async(t)
        \/ with_envs_async(t)
        \/ scoped_with_envs_async(t)
        \/ lock_await(t)
        \/ blocking_lock(t)
        \/ cancel_wait(t)
        \/ from_lock(t)
        \/ tempdir(t)
        \/ set_current_dir(t)
        \/ with_envs_set_envs(t)
        \/ set_envs(t)
        \/ work_returns(t)
        \/ exit(t)
        \/ drop(t)
        \/ restore_environment(t)
        \/ restore_directory(t)
        \/ close(t)
        \/ drop_lock(t)

AsyncSpec == AsyncInit /\ [][AsyncNext]_vars

\* ------------------------------------- lock guard and Internal (sync.rs, asynk.rs)
\* sync::Playspace and asynk::AsyncPlayspace are { _lock: Lock, internal:
\* Internal }, with no Drop of their own: the restoring is Internal's Drop.
\* the mode of a thread inside either of them
GuardModes == {"guard"}

\* sync::Playspace::new: Self::from_lock(blocking_lock())
sync_new(t) ==
    /\ Runs(t)
    /\ pc[t] = "idle"
    /\ guard_sessions < MaxGuardSessions
    /\ guard_sessions' = guard_sessions + 1
    /\ pc' = [pc EXCEPT ![t] = "blocking_lock"]
    /\ mode' = [mode EXCEPT ![t] = "guard"]
    /\ ret' = NoReturn
    /\ UNCHANGED <<MUTEX, lock, process_vars, session_vars, entry_env,
                   entry_cwd, entry_resolved, exit_diff, steps,
                   earlier_directories>>

\* asynk::AsyncPlayspace::new: Self::from_lock(MUTEX.lock().await)
asynk_new(t) ==
    /\ Runs(t)
    /\ pc[t] = "idle"
    /\ guard_sessions < MaxGuardSessions
    /\ guard_sessions' = guard_sessions + 1
    /\ pc' = [pc EXCEPT ![t] = "lock_await"]
    /\ mode' = [mode EXCEPT ![t] = "guard"]
    /\ ret' = NoReturn
    /\ UNCHANGED <<MUTEX, lock, process_vars, session_vars, entry_env,
                   entry_cwd, entry_resolved, exit_diff, steps,
                   earlier_directories>>

\* Internal::new, `directory: tempdir()?`: on the error from_lock returns
\* and its lock parameter is dropped
Internal_new_tempdir(t) ==
    /\ Runs(t)
    /\ pc[t] = "from_lock"
    /\ mode[t] \in GuardModes
    /\ \/ \E n \in TempNames :
            /\ TempRoot \o <<n>> \notin dirs
            /\ dirs' = dirs \cup {TempRoot \o <<n>>}
            /\ directory' = [directory EXCEPT ![t] = {TempRoot \o <<n>>}]
            /\ pc' = [pc EXCEPT ![t] = "Internal_new_saved"]
            /\ ret' = NoReturn
            /\ UNCHANGED <<MUTEX, lock, mode, env, cwd, files,
                           saved_environment, saved_current_dir,
                           working_dir_result, temp_dir_result, how,
                           history_vars>>
       \/ FromLockFails(t)

\* Internal::new, `saved_current_dir: current_dir().ok()` and
\* `saved_environment: vars_os().collect()`
Internal_new_saved(t) ==
    /\ Runs(t)
    /\ pc[t] = "Internal_new_saved"
    /\ saved_current_dir' = [saved_current_dir EXCEPT ![t] = current_dir]
    /\ saved_environment' = [saved_environment EXCEPT ![t] = env]
    /\ pc' = [pc EXCEPT ![t] = "Internal_new_set_current_dir"]
    /\ ret' = NoReturn
    /\ UNCHANGED <<MUTEX, lock, mode, process_vars, directory,
                   working_dir_result, temp_dir_result, how, history_vars>>

\* Internal::new, `set_current_dir(out.directory())?`, and the return of the
\* session; on the error `out` is dropped, which changes nothing that the
\* call had changed but removes the directory, and the lock is dropped
Internal_new_set_current_dir(t) ==
    /\ Runs(t)
    /\ pc[t] = "Internal_new_set_current_dir"
    /\ \/ /\ directory[t] \subseteq dirs
          /\ cwd' = CHOOSE d \in directory[t] : TRUE
          /\ pc' = [pc EXCEPT ![t] = "active"]
          /\ ret' = Return(t, "Playspace")
          /\ UNCHANGED <<MUTEX, lock, mode, env, dirs, files, session_vars,
                         history_vars>>
       \/ /\ ~(directory[t] \subseteq dirs)
          /\ FromLockFails(t)

\* The session value is dropped. Its fields are dropped in the order of
\* their declaration (sync.rs 73-74, asynk.rs 77-78): _lock, which unlocks
\* MUTEX, and then internal.
drop_fields__lock(t) ==
    /\ Runs(t)
    /\ pc[t] = "active"
    /\ mode[t] \in GuardModes
    /\ ReleaseLock(t)
    /\ pc' = [pc EXCEPT ![t] = "Internal_restore_directory"]
    /\ ret' = NoReturn
    /\ UNCHANGED <<mode, process_vars, session_vars, history_vars>>

\* impl Drop for Internal, line 114: self.restore_directory(); the result of
\* set_current_dir is discarded
Internal_restore_directory(t) ==
    /\ Runs(t)
    /\ pc[t] = "Internal_restore_directory"
    /\ cwd' = RestoreDirectory(saved_current_dir[t], cwd, dirs).cwd
    /\ pc' = [pc EXCEPT ![t] = "Internal_restore_environment"]
    /\ ret' = NoReturn
    /\ UNCHANGED <<MUTEX, lock, mode, env, dirs, files, session_vars,
                   history_vars>>

\* impl Drop for Internal, line 115: self.restore_environment()
Internal_restore_environment(t) ==
    /\ Runs(t)
    /\ pc[t] = "Internal_restore_environment"
    /\ env' = RestoreEnvironment(env, saved_environment[t])
    /\ pc' = [pc EXCEPT ![t] = "Internal_drop_directory"]
    /\ ret' = NoReturn
    /\ UNCHANGED <<MUTEX, lock, mode, cwd, dirs, files, session_vars,
                   history_vars>>

\* Internal's fields are dropped: the TempDir removes the scratch directory;
\* the drop of the session returns
Internal_drop_directory(t) ==
    /\ Runs(t)
    /\ pc[t] = "Internal_drop_directory"
    /\ dirs' = IF directory[t] = {} THEN dirs
               ELSE RemoveTree(dirs, CHOOSE d \in directory[t] : TRUE)
    /\ files' = IF directory[t] = {} THEN files
                ELSE RemoveFiles(files, CHOOSE d \in directory[t] : TRUE)
    /\ pc' = [pc EXCEPT ![t] = "idle"]
    /\ mode' = [mode EXCEPT ![t] = "none"]
    /\ ret' = Return(t, "()")
    /\ ClearSession(t)
    /\ ClearHistory(t)
    /\ UNCHANGED <<MUTEX, lock, env, cwd>>

InternalDropPcs == {"Internal_restore_directory",
                    "Internal_restore_environment", "Internal_drop_directory"}

\* sync::Playspace::create_dir_all and AsyncPlayspace::create_dir_all
\* (sync.rs 323-326, asynk.rs 346-349): self.internal.playspace_path(path)?,
\* then Internal::create_dir_all on the result, which calls playspace_path
\* on it again (internal.rs 65-68) before std::fs::create_dir_all
sync_create_dir_all(t) ==
    /\ CanWrite(t)
    /\ mode[t] \in GuardModes
    /\ \E path \in PathArgs, dir \in directory[t] :
          LET r == playspace_path(dir, path, dirs, files)
              resolved == [abs |-> TRUE, comps |-> r.path]
              again == playspace_path(dir, resolved, dirs, files)
              m == CreateDirAll(again.path, dirs, files)
          IN IF r.result # "Ok"
             THEN /\ ret' = ReturnWrite(t, r.result, path,
                                        [abs |-> path.abs, comps |-> r.path])
                  /\ UNCHANGED <<dirs, files>>
             ELSE IF again.result # "Ok"
             THEN /\ ret' = ReturnWrite(t, again.result, path, resolved)
                  /\ UNCHANGED <<dirs, files>>
             ELSE /\ ret' = ReturnWrite(t, IF m.ok THEN "Ok" ELSE "StdIo",
                                        path, NoPath)
                  /\ dirs' = m.dirs
                  /\ UNCHANGED files
    /\ WriteFrame

\* Sessions of the types of sync.rs and asynk.rs: entered through new,
\* changed by set_envs, ended by the drop of the value.
GuardInit ==
    /\ InitProcess
    /\ env = [FOO |-> "old", BAR |-> Absent]
    /\ executor = [t \in Threads |-> t]

GuardNext ==
    \E t \in Threads :
        \/ sync_new(t)
        \/ asynk_new(t)
        \/ blocking_lock(t)
        \/ lock_await(t)
        \/ Internal_new_tempdir(t)
        \/ Internal_new_saved(t)
        \/ Internal_new_set_current_dir(t)
        \/ set_envs(t)
        \/ drop_fields__lock(t)
        \/ Internal_restore_directory(t)
        \/ Internal_restore_environment(t)
        \/ Internal_drop_directory(t)

GuardSpec == GuardInit /\ [][GuardNext]_vars

\* restore_environment on every pair of tables: a teardown by exit is about
\* to restore the environment, for every table the process may have started
\* the session with and every table the session may have left.
AllEnvs == [Keys -> Vals \cup {Absent}]
RestoreThread == CHOOSE t \in Threads : TRUE

RestoreInit ==
    /\ MUTEX = TRUE
    /\ lock = [t \in Threads |-> t = RestoreThread]
    /\ pc = [t \in Threads |->
                IF t = RestoreThread THEN "restore_environment" ELSE "idle"]
    /\ mode = [t \in Threads |-> "none"]
    /\ executor = [t \in Threads |-> t]
    /\ env \in AllEnvs
    /\ cwd = TempRoot \o <<"a">>
    /\ dirs = {Home, TempRoot, TempRoot \o <<"a">>}
    /\ files = NoFiles
    /\ \E snapshot \in AllEnvs :
          /\ saved_environment = [t \in Threads |->
                 IF t = RestoreThread THEN snapshot ELSE EmptyEnv]
          /\ entry_env = saved_environment
          /\ exit_diff = [t \in Threads |->
                 IF t = RestoreThread
                 THEN {k \in Keys : env[k] # snapshot[k]} ELSE {}]
    /\ saved_current_dir = [t \in Threads |->
                                IF t = RestoreThread THEN {Home} ELSE {}]
    /\ directory = [t \in Threads |->
                        IF t = RestoreThread THEN {TempRoot \o <<"a">>} ELSE {}]
    /\ working_dir_result = [t \in Threads |-> "none"]
    /\ temp_dir_result = [t \in Threads |-> "none"]
    /\ how = [t \in Threads |-> IF t = RestoreThread THEN "exit" ELSE "none"]
    /\ ret = NoReturn
    /\ entry_cwd = [t \in Threads |-> IF t = RestoreThread THEN Home ELSE <<>>]
    /\ entry_resolved = [t \in Threads |-> t = RestoreThread]
    /\ steps = [t \in Threads |-> <<>>]
    /\ earlier_directories = {TempRoot \o <<"a">>}
    /\ guard_sessions = 0

RestoreNext ==
    \E t \in Threads :
        \/ restore_environment(t)
        \/ restore_directory(t)
        \/ close(t)
        \/ drop_lock(t)

RestoreSpec == RestoreInit /\ [][RestoreNext]_vars

\* Sessions entered through with_envs, whose code then changes the
\* environment with set_envs and leaves through exit or drop.
EnvsInit == Init

EnvsNext ==
    \E t \in Threads :
        \/ with_envs(t)
        \/ blocking_lock(t)
        \/ from_lock(t)
        \/ tempdir(t)
        \/ set_current_dir(t)
        \/ with_envs_set_envs(t)
        \/ set_envs(t)
        \/ exit(t)
        \/ drop(t)
        \/ restore_environment(t)
        \/ restore_directory(t)
        \/ close(t)
        \/ drop_lock(t)

EnvsSpec == EnvsInit /\ [][EnvsNext]_vars

\* The write operations: one thread enters through new, writes, moves about
\* and leaves through exit.
PathThreads == {1}

PathInit ==
    /\ InitProcess
    /\ env = [FOO |-> "old", BAR |-> Absent]
    /\ executor = [t \in Threads |-> t]

PathNext ==
    \E t \in PathThreads :
        \/ new(t)
        \/ blocking_lock(t)
        \/ from_lock(t)
        \/ tempdir(t)
        \/ set_current_dir(t)
        \/ session_chdir(t)
        \/ write_file(t)
        \/ create_file(t)
        \/ create_dir_all(t)
        \/ exit(t)
        \/ restore_environment(t)
        \/ restore_directory(t)
        \/ close(t)
        \/ drop_lock(t)

PathSpec == PathInit /\ [][PathNext]_vars

\* The write operations of a session of sync.rs: one thread enters through
\* new, writes files and makes directories, and drops the session.
GuardPathInit == GuardInit

GuardPathNext ==
    \E t \in PathThreads :
        \/ sync_new(t)
        \/ blocking_lock(t)
        \/ Internal_new_tempdir(t)
        \/ Internal_new_saved(t)
        \/ Internal_new_set_current_dir(t)
        \/ write_file(t)
        \/ sync_create_dir_all(t)
        \/ drop_fields__lock(t)
        \/ Internal_restore_directory(t)
        \/ Internal_restore_environment(t)
        \/ Internal_drop_directory(t)

GuardPathSpec == GuardPathInit /\ [][GuardPathNext]_vars

\* The write operations of a session whose scratch directory, or starting
\* directory, may be removed from outside while the session is live. The
\* session is followed up to its teardown.
ResolveInit == PathInit

\* external_remove taking the scratch directory of the live session
scratch_removed ==
    /\ external_remove
    /\ \E t \in PathThreads :
          /\ pc[t] = "active"
          /\ directory[t] \cap dirs' = {}
          /\ dirs \ dirs' \subseteq {e \in dirs : \E d \in directory[t] : starts_with(e, d)}

ResolveNext ==
    \/ \E t \in PathThreads :
        \/ new(t)
        \/ blocking_lock(t)
        \/ from_lock(t)
        \/ tempdir(t)
        \/ set_current_dir(t)
        \/ write_file(t)
        \/ create_file(t)
        \/ create_dir_all(t)
    \/ scratch_removed

ResolveSpec == ResolveInit /\ [][ResolveNext]_vars

\* Waiting for the lock, under fair scheduling: threads of their own that
\* enter through new, new_async or try_new and leave through exit or drop.
FairInit ==
    /\ InitProcess
    /\ env = [FOO |-> "old", BAR |-> Absent]
    /\ executor = [t \in Threads |-> t]

FairNext ==
    \E t \in Threads :
        \/ new(t)
        \/ new_async(t)
        \/ try_new(t)
        \/ blocking_lock(t)
        \/ lock_await(t)
        \/ from_lock(t)
        \/ tempdir(t)
        \/ set_current_dir(t)
        \/ exit(t)
        \/ drop(t)
        \/ restore_environment(t)
        \/ restore_directory(t)
        \/ close(t)
        \/ drop_lock(t)

\* the code of a thread that holds the lock runs on: the statements of
\* from_lock and of exit_internal
SessionStep(t) ==
    \/ from_lock(t)
    \/ tempdir(t)
    \/ set_current_dir(t)
    \/ restore_environment(t)
    \/ restore_directory(t)
    \/ close(t)
    \/ drop_lock(t)

\* Fair scheduling: a thread's code keeps running; every Active session is
\* eventually torn down (by exit or by drop); and a waiter for which MUTEX
\* is free again and again gets it: the mutex queues its waiters (the
\* tokio Mutex hands the lock over in FIFO order), so a later caller cannot
\* overtake a waiter forever.
Fairness ==
    \A t \in Threads :
        /\ WF_vars(SessionStep(t))
        /\ WF_vars(exit(t) \/ drop(t))
        /\ SF_vars(blocking_lock(t))
        /\ SF_vars(lock_await(t))

FairSpec == FairInit /\ [][FairNext]_vars /\ Fairness

\* ======================================================================
\* Properties
\* ======================================================================
\* the positions at which a thread has a session: from the acquisition of
\* the lock to the last statement of the teardown
InSession == {"from_lock", "tempdir", "set_current_dir", "active"} \cup
             {"restore_environment", "restore_directory", "close", "drop_lock"}
Waiting == {"blocking_lock", "lock_await"}

\* the step in which t's teardown (exit or drop) returns
TeardownReturns(t) ==
    pc[t] \in InSession \ {"from_lock", "tempdir", "set_current_dir", "active"}
    /\ pc'[t] = "idle"

\* C1: in every reachable state at most one thread owns a Lock guard of
\* MUTEX, whichever of new, try_new and new_async the threads enter through,
\* and MUTEX is locked whenever a guard is owned: the three modes take the
\* same mutex.
C1_OneLockHolder ==
    /\ Cardinality({t \in Threads : lock[t]}) <= 1
    /\ (\E t \in Threads : lock[t]) => MUTEX

\* C1 witness: a session entered through new_async holds the lock while a
\* blocking entry (new) of another thread waits for it.
C1_Witness ==
    \E t, u \in Threads :
        /\ t # u
        /\ lock[t] /\ mode[t] = "new_async"
        /\ pc[u] = "blocking_lock" /\ ~lock[u]

\* C2: while a thread has a session (from the acquisition of the lock on),
\* every other thread is outside any session: it has run no statement of
\* from_lock, and no statement of an earlier session's exit_internal is
\* still to run. So an entry made while a session is Active gets the lock,
\* and returns, only after that session's teardown has run to its end.
C2_EntryAfterTeardown ==
    \A t, u \in Threads :
        (t # u /\ pc[t] \in InSession) => pc[u] \in {"idle"} \cup Waiting

\* C2 witness: a teardown has just returned (its last statement released
\* the lock) while another thread, which entered while the session was
\* live, is still waiting in new or new_async.
C2_Witness ==
    \E t, u \in Threads :
        /\ t # u
        /\ ret.by = u /\ ret.value \in {"Ok", "()"}
        /\ pc[u] = "idle" /\ ~MUTEX
        /\ pc[t] \in Waiting

\* C3: every try_new made while MUTEX is locked (by the calling thread's own
\* session or by another thread's) returns AlreadyInSpace in that very step,
\* without the caller waiting or moving; every try_new made while MUTEX is
\* free (for one, after the session was torn down) takes the lock and goes on
\* to from_lock.
C3_TryNewFailsFast ==
    [][\A t \in Threads :
         /\ (try_new(t) /\ MUTEX) =>
                /\ ret' = Return(t, "AlreadyInSpace")
                /\ pc'[t] = pc[t]
                /\ pc'[t] \notin Waiting
         /\ (try_new(t) /\ ~MUTEX) =>
                /\ ret' # Return(t, "AlreadyInSpace")
                /\ lock'[t]
                /\ pc'[t] = "from_lock"]_vars

\* C3 witness: a try_new of another thread has just returned AlreadyInSpace
\* while a session is Active.
C3_Witness ==
    \E t, u \in Threads :
        /\ t # u
        /\ pc[t] = "active"
        /\ ret = Return(u, "AlreadyInSpace")
        /\ pc[u] = "idle"

\* C4: a step in which try_new returns AlreadyInSpace changes neither the
\* working directory, nor the environment table, nor the directories on
\* disk, nor the mutex and its guards.
C4_FailedTryNewFrame ==
    [][\A t \in Threads :
         ret' = Return(t, "AlreadyInSpace") =>
              UNCHANGED <<env, cwd, dirs, MUTEX, lock>>]_vars

\* C4 witness: the thread that holds the Active session has itself called
\* try_new and got AlreadyInSpace.
C4_Witness ==
    \E t \in Threads :
        /\ pc[t] = "active" /\ lock[t]
        /\ ret = Return(t, "AlreadyInSpace")

\* C5: when a session's teardown (exit or drop) returns, the environment
\* table equals the table of the moment the session took the lock, key for
\* key, whatever set/unset operations the session made: added variables are
\* gone, removed ones are back, changed ones have their captured value.
C5_EnvironmentRestored ==
    [][\A t \in Threads :
         TeardownReturns(t) => env' = entry_env[t]]_vars

\* C5 witness: a teardown has restored the environment (its lock is not yet
\* released) of a session that had changed every variable: FOO, set at
\* entry, was changed or removed, and BAR, absent at entry, was added.
C5_Witness ==
    \E t \in Threads :
        /\ pc[t] = "drop_lock"
        /\ exit_diff[t] = Keys
        /\ entry_env[t]["FOO"] # Absent /\ entry_env[t]["BAR"] = Absent
        /\ env = entry_env[t]

\* C6: if the working directory of the moment of entry existed then and still
\* exists when the teardown restores it, restore_directory succeeds and
\* makes it the working directory, and it stays the working directory until
\* the teardown has returned, wherever the session had moved to.
C6_DirectoryRestored ==
    [][\A t \in Threads :
         /\ (/\ pc[t] = "restore_directory"
             /\ pc'[t] # "restore_directory"
             /\ entry_resolved[t]
             /\ entry_cwd[t] \in dirs)
                => cwd' = entry_cwd[t]
         /\ (/\ pc[t] \in {"close", "drop_lock"}
             /\ working_dir_result[t] = "ok")
                => (cwd = entry_cwd[t] /\ cwd' = entry_cwd[t])]_vars

\* C6 witness: the teardown of a session that made a subdirectory of its
\* scratch directory has put the process back into the starting directory.
C6_Witness ==
    \E t \in Threads :
        /\ pc[t] = "close"
        /\ working_dir_result[t] = "ok"
        /\ cwd = Home /\ entry_cwd[t] = Home
        /\ \E d \in directory[t] : d \o <<SubdirName>> \in dirs

\* C7: a teardown returns only after each of its four statements has run
\* (environment restore, working-directory restore, scratch removal, lock
\* release), whatever the results of the restore and of the removal, and
\* when it returns the thread owns no guard and MUTEX is free.
C7_TeardownRunsEveryStep ==
    [][\A t \in Threads :
         TeardownReturns(t) =>
             /\ {steps[t][i] : i \in 1..Len(steps[t])} \cup {pc[t]} =
                  {"restore_environment", "restore_directory", "close",
                   "drop_lock"}
             /\ Len(steps[t]) = 3
             /\ ~lock'[t]
             /\ ~MUTEX']_vars

\* C7 witness: a teardown in which the directory restore failed and the
\* removal succeeded has just returned, and the lock is free.
C7_Witness ==
    /\ ret.value = "WorkingDirChangeFailed_None"
    /\ ~MUTEX
    /\ \A t \in Threads : ~lock[t]

\* C8: when an entry call returns an I/O error (tempdir or set_current_dir
\* failed in from_lock), the caller has no session and is idle, it owns no
\* guard and MUTEX is free, the environment table and the working directory
\* are those of the moment the lock was taken, and the scratch directory the
\* call made, if any, is not on disk.
C8_FailedEntryLeavesNothing ==
    [][\A t \in Threads :
         ret' = Return(t, "StdIo") =>
             /\ pc[t] \in {"tempdir", "set_current_dir"}
             /\ pc'[t] = "idle"
             /\ ~lock'[t]
             /\ ~MUTEX'
             /\ env' = entry_env[t]
             /\ cwd' = entry_cwd[t]
             /\ directory[t] \cap dirs' = {}
             /\ directory'[t] = {}]_vars

\* C8 witness: an entry call has just failed with an I/O error, the lock is
\* free and another entry can go on.
C8_Witness ==
    \E t \in Threads :
        /\ ret = Return(t, "StdIo")
        /\ pc[t] = "idle"
        /\ ~MUTEX

\* C9: exit returns Ok exactly when the directory restore and the scratch
\* removal both succeeded, TempDirRemoveFailed exactly when only the removal
\* failed, WorkingDirChangeFailed with temp_dir = None exactly when only the
\* restore failed, and WorkingDirChangeFailed with temp_dir = Some exactly
\* when both failed.
C9_ExitReportsEveryFailure ==
    [][\A t \in Threads :
         (TeardownReturns(t) /\ how[t] = "exit") =>
             LET w == working_dir_result[t]
                 r == temp_dir_result[t]
                 v == ret'.value
             IN /\ ret'.by = t
                /\ w \in {"ok", "err"} /\ r \in {"ok", "err"}
                /\ (v = "Ok") <=> (w = "ok" /\ r = "ok")
                /\ (v = "TempDirRemoveFailed") <=> (w = "ok" /\ r = "err")
                /\ (v = "WorkingDirChangeFailed_None") <=>
                       (w = "err" /\ r = "ok")
                /\ (v = "WorkingDirChangeFailed_Some") <=>
                       (w = "err" /\ r = "err")]_vars

\* C9 witness: exit has just returned WorkingDirChangeFailed carrying the
\* removal error too.
C9_Witness ==
    \E t \in Threads :
        /\ ret = Return(t, "WorkingDirChangeFailed_Some")
        /\ pc[t] = "idle"

\* C10: drop starts exit_internal at its first statement with the process
\* and the session as they were, exactly as exit does, and when the teardown
\* it started returns, the environment is the entry table, the scratch
\* directory is off the disk, the working directory is the restored one if
\* the restore succeeded, every statement has run and the lock is free: the
\* state exit leaves. Only the result differs: drop returns (), no error.
C10_DropTearsDownLikeExit ==
    [][\A t \in Threads :
         /\ (pc[t] = "active" /\ how'[t] = "drop") =>
                /\ pc'[t] = "restore_environment"
                /\ UNCHANGED <<MUTEX, lock, env, cwd, dirs, saved_environment,
                               saved_current_dir, directory>>
         /\ (TeardownReturns(t) /\ how[t] = "drop") =>
                /\ env' = entry_env[t]
                /\ directory[t] \cap dirs' = {}
                /\ working_dir_result[t] = "ok" => cwd' = entry_cwd[t]
                /\ Len(steps[t]) = 3
                /\ ~lock'[t] /\ ~MUTEX'
                /\ ret' = Return(t, "()")]_vars

\* C10 witness: a teardown started by drop has just returned, with the lock
\* free.
C10_Witness ==
    \E t \in Threads :
        /\ ret = Return(t, "()")
        /\ pc[t] = "idle"
        /\ ~MUTEX

\* C11: a session is torn down once and its lock released once. A teardown
\* starts only from a live session (never from a value exit has consumed),
\* no statement of exit_internal runs a second time in the same session,
\* the lock is released only by the thread that owns the guard, at the
\* drop_lock statement or at a failed entry, and never while another thread
\* owns a guard; when exit or drop has returned the thread is idle, owns no
\* guard, has no session fields left and runs no further teardown step.
C11_TornDownOnce ==
    [][\A t \in Threads :
         /\ (pc'[t] = ExitOrder[1] /\ pc[t] # ExitOrder[1]) =>
                (pc[t] = "active" /\ lock[t] /\ directory[t] # {})
         /\ pc[t] \in ExitPcs =>
                (/\ lock[t]
                 /\ \A i \in 1..Len(steps[t]) : steps[t][i] # pc[t])
         /\ (lock[t] /\ ~lock'[t]) =>
                (/\ pc[t] \in {"drop_lock", "tempdir", "set_current_dir"}
                 /\ MUTEX /\ ~MUTEX'
                 /\ \A u \in Threads : ~lock'[u])
         /\ (MUTEX /\ ~MUTEX') =>
                Cardinality({u \in Threads : lock[u] /\ ~lock'[u]}) = 1
         /\ TeardownReturns(t) =>
                (/\ ret'.by = t
                 /\ ~lock'[t]
                 /\ directory'[t] = {}
                 /\ how'[t] = "none")]_vars

\* C11 witness: exit has returned (here with the removal error) and released
\* the lock once; the thread is idle with no session left, and another
\* thread's new_async is about to take the lock for a later session.
C11_Witness ==
    \E t, u \in Threads :
        /\ t # u
        /\ ret = Return(t, "TempDirRemoveFailed")
        /\ pc[t] = "idle" /\ directory[t] = {} /\ ~lock[t]
        /\ ~MUTEX
        /\ pc[u] = "lock_await"

\* C12: a panic of the work closure of scoped, try_scoped or scoped_with_envs
\* starts exit_internal at its first statement (the unwinding drops the
\* Playspace), and the panic leaves the scoped form only when that teardown
\* has returned: every statement has run, the environment is the table of
\* the moment of entry, the working directory is the entry directory if that
\* was captured and still exists, the scratch directory is off the disk, the
\* thread owns no guard and MUTEX is free for a later entry.
C12_PanicTearsDown ==
    [][\A t \in Threads :
         /\ ret' = Return(t, "panic") =>
                (TeardownReturns(t) /\ how[t] = "unwind")
         /\ (pc[t] = "active" /\ how'[t] = "unwind") =>
                /\ pc'[t] = "restore_environment"
                /\ UNCHANGED <<MUTEX, lock, env, cwd, dirs, saved_environment,
                               saved_current_dir, directory>>
         /\ (/\ pc[t] = "restore_directory" /\ pc'[t] = "close"
             /\ how[t] = "unwind"
             /\ entry_resolved[t] /\ entry_cwd[t] \in dirs) =>
                (cwd' = entry_cwd[t] /\ working_dir_result'[t] = "ok")
         /\ (TeardownReturns(t) /\ how[t] = "unwind") =>
                /\ env' = entry_env[t]
                /\ working_dir_result[t] = "ok" => cwd' = entry_cwd[t]
                /\ directory[t] \cap dirs' = {}
                /\ Len(steps[t]) = 3
                /\ ~lock'[t] /\ ~MUTEX'
                /\ \A u \in Threads : ~lock'[u]]_vars

\* C12 witness: the work of a scoped_with_envs session, whose set_envs had
\* changed the environment, panicked; the teardown run by the unwinding has
\* restored the environment and the working directory and removed the
\* scratch directory, and is about to release the lock another thread's
\* scoped call waits for.
C12_Witness ==
    \E t, u \in Threads :
        /\ t # u
        /\ pc[t] = "drop_lock" /\ how[t] = "unwind"
        /\ mode[t] = "scoped_with_envs"
        /\ exit_diff[t] # {}
        /\ env = entry_env[t] /\ cwd = entry_cwd[t]
        /\ directory[t] \cap dirs = {}
        /\ pc[u] = "blocking_lock"

\* C13: the cancellation of a task whose session is Active (the work of an
\* async scoped form at an await point, or a task that owns the Playspace it
\* got from new_async) starts exit_internal at its first statement, and the
\* cancellation is over only when that teardown has returned: every
\* statement has run, the environment is the entry table, the scratch
\* directory is off the disk, no guard is owned and MUTEX is free, so that
\* the acquisition of every task waiting in new_async is enabled.
C13_CancelTearsDown ==
    [][\A t \in Threads :
         /\ ret' = Return(t, "cancelled") =>
                (TeardownReturns(t) /\ how[t] = "cancel")
         /\ (pc[t] = "active" /\ how'[t] = "cancel") =>
                /\ pc'[t] = "restore_environment"
                /\ UNCHANGED <<MUTEX, lock, env, cwd, dirs, saved_environment,
                               saved_current_dir, directory>>
         /\ (TeardownReturns(t) /\ how[t] = "cancel") =>
                /\ env' = entry_env[t]
                /\ working_dir_result[t] = "ok" => cwd' = entry_cwd[t]
                /\ directory[t] \cap dirs' = {}
                /\ Len(steps[t]) = 3
                /\ ~lock'[t] /\ ~MUTEX'
                /\ \A u \in Threads : ~lock'[u]
         /\ (pc[t] = "lock_await" /\ ~MUTEX) => ENABLED lock_await(t)]_vars

\* C13 witness: the teardown of a cancelled scoped_async work has just
\* returned; the lock is free and another task is waiting in new_async.
C13_Witness ==
    \E t, u \in Threads :
        /\ t # u
        /\ ret = Return(t, "cancelled")
        /\ pc[t] = "idle" /\ ~MUTEX
        /\ pc[u] = "lock_await"

\* C14 (as the code has it): a scoped form returns when the teardown it
\* started after the work has run every statement; it returns Ok with the
\* work's result exactly when the directory restore and the scratch removal
\* both succeeded, and otherwise the teardown error alone (the error exit
\* reports for the two results), without the work's result.
C14_ScopedReturnsResultOrError ==
    [][\A t \in Threads :
         /\ (ret'.by = t /\ ret'.out) =>
                (TeardownReturns(t) /\ how[t] = "scoped")
         /\ (pc[t] = "active" /\ how'[t] = "scoped") =>
                (mode[t] \in ScopedModes /\ pc'[t] = "restore_environment")
         /\ (TeardownReturns(t) /\ how[t] = "scoped") =>
                LET w == working_dir_result[t]
                    r == temp_dir_result[t]
                IN /\ Len(steps[t]) = 3
                   /\ ~MUTEX'
                   /\ ret'.by = t
                   /\ (w = "ok" /\ r = "ok") =>
                          ret' = ReturnOut(t, "Ok", TRUE)
                   /\ (w = "ok" /\ r = "err") =>
                          ret' = ReturnOut(t, "TempDirRemoveFailed", FALSE)
                   /\ (w = "err" /\ r = "ok") =>
                          ret' = ReturnOut(t, "WorkingDirChangeFailed_None",
                                           FALSE)
                   /\ (w = "err" /\ r = "err") =>
                          ret' = ReturnOut(t, "WorkingDirChangeFailed_Some",
                                           FALSE)]_vars

\* C14 as claimed: whenever the teardown of a scoped form returns, with an
\* error or without, the caller receives the work's result with it.
C14_ScopedReturnsBoth ==
    [][\A t \in Threads :
         (TeardownReturns(t) /\ how[t] = "scoped") =>
             (ret'.by = t /\ ret'.out)]_vars

\* C14 witness: the work of a scoped form has returned and the teardown has
\* failed to restore the working directory; its last statement is about to
\* return the error.
C14_Witness ==
    \E t \in Threads :
        /\ pc[t] = "drop_lock" /\ how[t] = "scoped"
        /\ mode[t] = "scoped"
        /\ working_dir_result[t] = "err"

\* C16: the cancellation of a task whose new_async (or scoped_async) is
\* still waiting for the lock ends the call in that step, with the task idle
\* and owning no guard, and changes nothing else: not MUTEX or any guard,
\* not the environment, the working directory or the directories on disk, no
\* session field, and no other thread's position, so that the others go on
\* as they would have.
C16_CancelledWaitTouchesNothing ==
    [][\A t \in Threads :
         /\ lock[t] => pc[t] # "lock_await"
         /\ (pc[t] = "lock_await" /\ pc'[t] = "idle") =>
                /\ ret' = Return(t, "abandoned")
                /\ ~lock'[t]
                /\ UNCHANGED <<MUTEX, lock, env, cwd, dirs, session_vars,
                               executor>>
                /\ \A u \in Threads \ {t} :
                       pc'[u] = pc[u] /\ mode'[u] = mode[u]]_vars

\* C16 witness: a task's wait in new_async has just been cancelled while
\* another task's session is Active and holds the lock.
C16_Witness ==
    \E t, u \in Threads :
        /\ t # u
        /\ ret = Return(t, "abandoned")
        /\ pc[t] = "idle"
        /\ pc[u] = "active" /\ lock[u] /\ MUTEX

\* C15: when the working directory did not resolve at entry, or the entry
\* directory is gone when the teardown restores, restore_directory fails and
\* leaves the process where it is; the teardown goes on: it removes the
\* scratch directory, releases the lock and, through exit, reports
\* WorkingDirChangeFailed. Afterwards MUTEX is free, so a blocked new takes
\* it, and an entry whose scratch directory was made becomes Active whether
\* or not the working directory it started from resolved.
C15_UnresolvedDirectoryReported ==
    [][\A t \in Threads :
         /\ (/\ pc[t] = "restore_directory" /\ pc'[t] = "close"
             /\ (~entry_resolved[t] \/ entry_cwd[t] \notin dirs)) =>
                (working_dir_result'[t] = "err" /\ cwd' = cwd)
         /\ (TeardownReturns(t) /\ working_dir_result[t] = "err") =>
                /\ pc[t] = "drop_lock"
                /\ steps[t] = <<"restore_environment", "restore_directory",
                                "close">>
                /\ directory[t] \cap dirs' = {}
                /\ ~lock'[t] /\ ~MUTEX'
                /\ how[t] = "exit" =>
                       ret'.value \in {"WorkingDirChangeFailed_None",
                                       "WorkingDirChangeFailed_Some"}
         /\ (pc[t] = "blocking_lock" /\ ~MUTEX /\ Runnable(t)) =>
                ENABLED blocking_lock(t)
         /\ (/\ pc[t] = "set_current_dir" /\ pc'[t] # "set_current_dir"
             /\ directory[t] \subseteq dirs) =>
                (pc'[t] = "active" /\ ret' = Return(t, "Playspace"))]_vars

\* C15 witness: a session entered through new while the working directory
\* did not resolve (nothing was captured) went on to become Active; its
\* teardown has failed to restore, has removed the scratch directory and is
\* about to release the lock, for which another thread's new is waiting.
C15_Witness ==
    \E t, u \in Threads :
        /\ t # u
        /\ pc[t] = "drop_lock"
        /\ ~entry_resolved[t]
        /\ working_dir_result[t] = "err" /\ temp_dir_result[t] = "ok"
        /\ directory[t] \cap dirs = {}
        /\ pc[u] = "blocking_lock"

\* the step a thread inside a session would take next is enabled
SessionStepEnabled(u) ==
    /\ pc[u] = "from_lock" => ENABLED from_lock(u)
    /\ pc[u] = "tempdir" => ENABLED tempdir(u)
    /\ pc[u] = "set_current_dir" => ENABLED set_current_dir(u)
    /\ (pc[u] = "active" /\ mode[u] = "none") => ENABLED exit(u)
    /\ (pc[u] = "active" /\ mode[u] = "none") => ENABLED drop(u)
    /\ pc[u] = "restore_environment" => ENABLED restore_environment(u)
    /\ pc[u] = "restore_directory" => ENABLED restore_directory(u)
    /\ pc[u] = "close" => ENABLED close(u)
    /\ pc[u] = "drop_lock" => ENABLED drop_lock(u)

\* C17: a task that has called new_async and has not got the lock is at the
\* await of MUTEX.lock(), not inside a blocking call: it is the only task
\* its wait suspends. Every other task of the same executor thread stays
\* runnable (unless a third task blocks the thread), the holder of the
\* session can take its next step, up to the end of its teardown, and the
\* waiting task's acquisition is enabled exactly when MUTEX is free, that
\* is once the holder's teardown has released it.
C17_AsyncWaitSuspendsOnlyWaiter ==
    \A t \in Threads :
        (mode[t] = "new_async" /\ ~lock[t]) =>
            /\ pc[t] = "lock_await"
            /\ \A u \in Threads \ {t} :
                   (/\ executor[u] = executor[t]
                    /\ \A v \in Threads \ {t, u} : pc[v] # "blocking_lock") =>
                       /\ Runnable(u)
                       /\ lock[u] => SessionStepEnabled(u)
            /\ (Runnable(t) /\ ~MUTEX) => ENABLED lock_await(t)
            /\ MUTEX => ~ENABLED lock_await(t)

\* C17 witness: a task waits in new_async while the session of another task
\* of the same executor thread is Active, and that holder is runnable.
C17_Witness ==
    \E t, u \in Threads :
        /\ t # u
        /\ executor[t] = executor[u]
        /\ pc[t] = "lock_await" /\ mode[t] = "new_async"
        /\ pc[u] = "active" /\ lock[u]
        /\ Runnable(u)
        /\ ENABLED exit(u)

\* C18 as claimed: while a task that has called with_envs_async (or
\* scoped_with_envs_async) has not got the lock, which another task holds,
\* it is suspended at an await
\* and every other task of its executor thread, the holder of the session
\* among them, stays runnable and can take its next step.
C18_WithEnvsAsyncSuspendsOnlyCaller ==
    \A t \in Threads :
        (/\ mode[t] \in {"with_envs_async", "scoped_with_envs_async"}
         /\ ~lock[t]
         /\ \E h \in Threads \ {t} : lock[h]) =>
            /\ pc[t] = "lock_await"
            /\ \A u \in Threads \ {t} :
                   (/\ executor[u] = executor[t]
                    /\ \A v \in Threads \ {t, u} : pc[v] # "blocking_lock") =>
                       /\ Runnable(u)
                       /\ lock[u] => SessionStepEnabled(u)

\* C19: under fair scheduling in which every Active session is eventually
\* torn down, every thread blocked in new and every task waiting in
\* new_async eventually holds the lock, and every thread that holds the lock
\* inside an entry call eventually has its session Active, unless tempdir
\* or set_current_dir fails and the call returns the I/O error (then with
\* the lock released for the next waiter).
C19_WaitersEventuallyEnter ==
    \A t \in Threads :
        /\ (pc[t] \in Waiting) ~> lock[t]
        /\ (pc[t] \in Waiting) ~>
               (pc[t] = "active" \/ ret = Return(t, "StdIo"))

\* C19 witness: a thread is blocked in new and a task waits in new_async
\* (where there are three threads), or one of the two waits, while the
\* holder's teardown is at its last statement, the release of the lock.
C19_Witness ==
    \E t, u \in Threads :
        /\ t # u
        /\ pc[t] \in Waiting /\ ~lock[t]
        /\ pc[u] = "drop_lock" /\ lock[u] /\ MUTEX
        /\ ENABLED drop_lock(u)

\* C20: for every path argument, relative or absolute, `..` components
\* included, a step of write_file, create_file or create_dir_all creates or
\* modifies no directory and no file outside the scratch directory of the
\* Playspace it is called on.
WrittenEntries ==
    (dirs' \ dirs) \cup
    {q \in DOMAIN files' : q \notin DOMAIN files \/ files'[q] # files[q]}
C20_WritesStayInsidePlayspace ==
    [][\A t \in Threads :
          (ret'.by = t /\ ret'.arg # NoPath) =>
              \A d \in directory[t] :
                  \A e \in WrittenEntries : starts_with(e, d)]_vars

\* C21: a write operation given an absolute path that lies inside the
\* scratch directory does not answer OutsidePlayspace; given an absolute
\* path that lies outside it, it answers OutsidePlayspace carrying the
\* requested path; and when it answers OutsidePlayspace no directory and no
\* file is created or changed.
LiesInside(d, arg) == starts_with(Normalized(arg.comps), d)
C21_AbsolutePathsChecked ==
    [][\A t \in Threads :
          (ret'.by = t /\ ret'.arg # NoPath /\ ret'.arg.abs) =>
              \A d \in directory[t] :
                  /\ LiesInside(d, ret'.arg) =>
                         ret'.value # "OutsidePlayspace"
                  /\ ~LiesInside(d, ret'.arg) =>
                         /\ ret'.value = "OutsidePlayspace"
                         /\ ret'.path = ret'.arg
                  /\ ret'.value = "OutsidePlayspace" =>
                         UNCHANGED <<dirs, files>>]_vars

\* C22: a write operation given a relative path creates or changes only
\* what that path names from the root of the scratch directory, and on
\* success the place it names from there exists, whatever the working
\* directory of the process is at the call.
C22_RelativeIsFromScratchRoot ==
    [][\A t \in Threads :
          (ret'.by = t /\ ret'.arg # NoPath /\ ~ret'.arg.abs) =>
              \A d \in directory[t] :
                  LET full == d \o ret'.arg.comps
                  IN /\ \A e \in WrittenEntries :
                           \E k \in 1..Len(full) :
                               e = Normalized(SubSeq(full, 1, k))
                     /\ ret'.value \in {"Ok", "File"} =>
                            Normalized(full) \in
                                {<<>>} \cup dirs' \cup DOMAIN files']_vars

\* a file was written through a relative path while the working directory
\* was elsewhere
C22_Witness ==
    /\ ret.by \in Threads
    /\ ret.arg # NoPath
    /\ ~ret.arg.abs
    /\ ret.value = "Ok"
    /\ \E d \in directory[ret.by] :
          /\ cwd # d
          /\ d \o ret.arg.comps \in DOMAIN files

\* C23: a file written through write_file or create_file holds what was
\* written (create_file leaves it empty for the caller to fill), nothing but
\* a further write operation changes the files while the session is live,
\* and when a teardown has succeeded the scratch directory is gone and no
\* file that a session wrote is left on disk (the disk held no file to
\* begin with).
C23_WrittenFilesLiveUntilTeardown ==
    [][\A t \in Threads :
          /\ (ret'.by = t /\ ret'.arg # NoPath /\ ret'.value \in {"Ok", "File"}
                /\ files' # files) =>
                 \E q \in DOMAIN files' :
                     /\ files'[q] \in (IF ret'.value = "Ok" THEN Contents
                                      ELSE {""})
                     /\ \A d \in directory[t] :
                            q = Normalized(IF ret'.arg.abs THEN ret'.arg.comps
                                           ELSE d \o ret'.arg.comps)
          /\ (pc[t] = "active" /\ ret'.arg = NoPath) => files' = files
          /\ (TeardownReturns(t)
                /\ ExitResult(working_dir_result[t], temp_dir_result[t]) = "Ok") =>
                 /\ directory[t] \cap dirs' = {}
                 /\ files' = NoFiles]_vars

\* the step in which from_lock returns the session to t's entry call
SessionReturned(t) ==
    /\ pc[t] = "set_current_dir"
    /\ pc'[t] \in {"active", "with_envs"}

\* the step in which tempdir() hands t its scratch directory
ScratchCreated(t) ==
    /\ pc[t] = "tempdir"
    /\ pc'[t] = "set_current_dir"

\* the scratch directory is new when it is made, and when the entry call
\* returns the session it exists, nothing is in it, it is not the working
\* directory the process had before the entry, and it is the working
\* directory of the process
FreshScratchDirectory(t) ==
    /\ ScratchCreated(t) =>
           /\ directory'[t] # {}
           /\ directory'[t] \cap dirs = {}
    /\ SessionReturned(t) =>
           \A d \in directory'[t] :
               /\ d \in dirs'
               /\ \A e \in dirs' \cup DOMAIN files' :
                      starts_with(e, d) => e = d
               /\ entry_resolved[t] => d # entry_cwd[t]
               /\ cwd' = d

C25_WithEnvsSnapshotFirst ==
    [][\A t \in Threads :
          /\ \A pairs \in PairSeqs :
                 with_envs_set_envs_of(t, pairs) =>
                     /\ saved_environment[t] = entry_env[t]
                     /\ saved_environment'[t] = entry_env[t]
                     /\ env' = ApplyPairs(entry_env[t], pairs)
          /\ TeardownReturns(t) => env' = entry_env[t]]_vars

\* with_envs has returned a session whose overrides changed the environment
C25_Witness ==
    \E t \in Threads :
        /\ pc[t] = "active"
        /\ ret = Return(t, "Playspace")
        /\ saved_environment[t] = entry_env[t]
        /\ env # entry_env[t]

\* the keys the pairs name, and the value (or Absent) of the last pair for k
NamedKeys(pairs) == {pairs[i][1] : i \in DOMAIN pairs}
LastPairFor(pairs, k) ==
    pairs[CHOOSE i \in DOMAIN pairs :
              /\ pairs[i][1] = k
              /\ \A j \in DOMAIN pairs : pairs[j][1] = k => j <= i][2]

\* C26: after set_envs, every key the pairs name has the value of the last
\* pair that names it, Some(v) setting it to v and None unsetting it, and
\* every other variable is as it was; the snapshot, the working directory
\* and the disk are left alone.
C26_SetEnvsAppliesPairsInOrder ==
    [][\A t \in Threads : \A pairs \in PairSeqs :
          set_envs_of(t, pairs) =>
              /\ \A k \in Keys :
                     env'[k] = IF k \in NamedKeys(pairs)
                               THEN LastPairFor(pairs, k) ELSE env[k]
              /\ UNCHANGED <<cwd, dirs, files, saved_environment>>]_vars

\* set_envs has run in a live session: against the snapshot one variable has
\* been set or changed and another is unset, and a pair that overrides an
\* earlier pair for its key can be applied
C26_Witness ==
    \E t \in Threads :
        /\ pc[t] = "active"
        /\ ret = NoReturn
        /\ \E k \in Keys :
              /\ env[k] # Absent
              /\ env[k] # saved_environment[t][k]
        /\ \E k \in Keys :
              /\ env[k] = Absent
              /\ saved_environment[t][k] # Absent
        /\ ENABLED set_envs_of(t, <<<<"FOO", "new">>, <<"FOO", Absent>>>>)

\* C27: a teardown runs its statements in one order: environment restore,
\* working-directory restore, scratch-directory removal, lock release. At
\* each statement exactly the statements before it in that order have run;
\* the guard and MUTEX are held until the first three have run, and they
\* are given up in the step of the fourth.
C27_TeardownOrder ==
    [][\A t \in Threads :
          /\ pc[t] = "restore_environment" => steps[t] = <<>>
          /\ pc[t] = "restore_directory" =>
                 steps[t] = <<"restore_environment">>
          /\ pc[t] = "close" =>
                 steps[t] = <<"restore_environment", "restore_directory">>
          /\ pc[t] = "drop_lock" =>
                 steps[t] = <<"restore_environment", "restore_directory",
                              "close">>
          /\ pc[t] \in {"restore_environment", "restore_directory", "close"} =>
                 /\ lock[t] /\ MUTEX
                 /\ lock'[t] /\ MUTEX'
          /\ (pc[t] \in ExitPcs /\ lock[t] /\ ~lock'[t]) =>
                 /\ pc[t] = "drop_lock"
                 /\ Len(steps[t]) = 3]_vars

\* a teardown has restored the environment and the working directory and
\* removed the scratch directory, and is about to release the lock another
\* thread is waiting for
C27_Witness ==
    \E t \in Threads :
        /\ pc[t] = "drop_lock"
        /\ lock[t]
        /\ Len(steps[t]) = 3
        /\ env = entry_env[t]
        /\ directory[t] \cap dirs = {}
        /\ \E u \in Threads \ {t} : pc[u] \in Waiting

\* C28: when the drop of a session of sync.rs or asynk.rs gives up the lock,
\* the working directory and the environment are those the process had at
\* the entry and the scratch directory is gone; and no thread comes to hold
\* the lock while another is still restoring, so what it saves at its entry
\* is never the state of the session being dropped.
C28_RestoredBeforeLockReleased ==
    [][\A t \in Threads :
          /\ (mode[t] \in GuardModes /\ pc[t] = "active" /\ lock[t]
                /\ ~lock'[t]) =>
                 /\ env' = entry_env[t]
                 /\ entry_resolved[t] => cwd' = entry_cwd[t]
                 /\ directory[t] \cap dirs' = {}
          /\ (~lock[t] /\ lock'[t]) =>
                 \A u \in Threads \ {t} : pc[u] \notin InternalDropPcs]_vars

\* C29: a session takes its snapshot holding the lock, with no other thread
\* in a session or in a teardown, before it has made its directory or
\* changed anything: what it saves is the environment and the working
\* directory as they were when it acquired the lock. The environment and
\* the working directory change only in steps taken while a session holds
\* the lock, so what is saved is what the previous teardown left.
C29_SnapshotUnderLock ==
    [][/\ \A t \in Threads :
            (pc[t] = "from_lock" /\ pc'[t] = "tempdir") =>
                /\ lock[t] /\ MUTEX
                /\ \A u \in Threads \ {t} : pc[u] \notin InSession
                /\ directory[t] = {}
                /\ env = entry_env[t] /\ cwd = entry_cwd[t]
                /\ saved_environment'[t] = entry_env[t]
                /\ saved_current_dir'[t] =
                       (IF entry_resolved[t] /\ entry_cwd[t] \in dirs
                        THEN {entry_cwd[t]} ELSE {})
       /\ (env' # env \/ cwd' # cwd) =>
              \E u \in Threads : lock[u] /\ pc[u] \in InSession]_vars

\* a session has taken its snapshot after an earlier session, which changed
\* the environment, was torn down: the snapshot is the restored table
C29_Witness ==
    \E t \in Threads :
        /\ pc[t] = "tempdir"
        /\ earlier_directories # {}
        /\ saved_environment[t] = env
        /\ saved_current_dir[t] = {cwd}
        /\ \E u \in Threads \ {t} : pc[u] \in Waiting

\* the step in which t's restore_environment runs
RestoresEnvironment(t) ==
    /\ pc[t] = "restore_environment"
    /\ pc'[t] # "restore_environment"

LockInit ==
    /\ InitProcess
    /\ env = [FOO |-> "old", BAR |-> Absent]
    /\ executor = [t \in Threads |-> t]

LockNext ==
    \/ ScopedNext
    \/ \E t \in Threads :
        \/ new(t)
        \/ try_new(t)
        \/ drop(t)

LockSpec == LockInit /\ [][LockNext]_vars

\* the positions at which a Playspace value, or the from_lock call that is
\* making it, exists: InSession and the set_envs statement of with_envs
SessionPcs == InSession \cup {"with_envs"}

\* C31: in every reachable state MUTEX is locked if and only if exactly one
\* session exists (a thread is between the acquisition of the lock and the
\* end of its teardown); a thread owns the Lock guard exactly while it has
\* a session. So the lock is free whenever no session exists, and no
\* session exists without the lock.
C31_LockHeldIffSession ==
    /\ MUTEX <=> Cardinality({t \in Threads : pc[t] \in SessionPcs}) = 1
    /\ ~MUTEX <=> \A t \in Threads : pc[t] \notin SessionPcs
    /\ \A t \in Threads : lock[t] <=> pc[t] \in SessionPcs

\* C31 witness: the lock is free again and no session exists after a failed
\* teardown, a panic or a failed entry, while another thread still waits.
C31_Witness ==
    /\ ~MUTEX
    /\ \A t \in Threads : pc[t] \notin SessionPcs
    /\ ret.value \in {"panic", "StdIo", "TempDirRemoveFailed",
                      "WorkingDirChangeFailed_None",
                      "WorkingDirChangeFailed_Some"}
    /\ \E u \in Threads : pc[u] \in Waiting

\* the step in which from_lock takes its snapshot (lines 396-397)
SnapshotTaken(t) ==
    /\ pc[t] = "from_lock"
    /\ pc'[t] # "from_lock"

\* C32: an entry made while the working directory of the process cannot be
\* resolved does not fail for that: from_lock saves no working directory
\* and goes on to tempdir(); its next statements can succeed as in any other
\* entry (tempdir, and set_current_dir while the scratch directory is
\* there); and the session it returns has no saved working directory, a
\* scratch directory that is new, exists and is empty, and the working
\* directory of the process set to it.
C32_EntryWithUnresolvedDirectory ==
    [][\A t \in Threads :
          /\ (SnapshotTaken(t) /\ cwd \notin dirs) =>
                 /\ pc'[t] = "tempdir"
                 /\ saved_current_dir'[t] = {}
                 /\ lock'[t]
          /\ (pc[t] = "tempdir" /\ saved_current_dir[t] = {}) =>
                 ENABLED (tempdir(t) /\ ScratchCreated(t))
          /\ (pc[t] = "set_current_dir" /\ saved_current_dir[t] = {}
                /\ directory[t] \subseteq dirs) =>
                 ENABLED (set_current_dir(t) /\ SessionReturned(t))
          /\ saved_current_dir[t] = {} => FreshScratchDirectory(t)
          /\ (SessionReturned(t) /\ saved_current_dir[t] = {}) =>
                 /\ saved_current_dir'[t] = {}
                 /\ directory'[t] # {}
                 /\ cwd' \in directory'[t]
                 /\ cwd' \in dirs'
                 /\ lock'[t]]_vars

\* C32 witness: new has returned a session to a thread that entered while
\* the working directory was gone: nothing is saved, and the process is in
\* the scratch directory.
C32_Witness ==
    \E t \in Threads :
        /\ pc[t] = "active"
        /\ ret = Return(t, "Playspace")
        /\ ~entry_resolved[t]
        /\ saved_current_dir[t] = {}
        /\ directory[t] \subseteq dirs
        /\ cwd \in directory[t]

\* ----------------------------------------------------------------------
\* Threads that may call an entry again while they own a live Playspace
\* (src/tests/scoped.rs, no_nested, and the example of Playspace::new).
NestedInit ==
    /\ InitProcess
    /\ env = [FOO |-> "old", BAR |-> Absent]
    /\ executor = [t \in Threads |-> t]

NestedNext ==
    \E t \in Threads :
        \/ new(t)
        \/ scoped(t)
        \/ try_new(t)
        \/ new_holding_playspace(t)
        \/ scoped_holding_playspace(t)
        \/ blocking_lock(t)
        \/ from_lock(t)
        \/ tempdir(t)
        \/ set_current_dir(t)
        \/ set_envs(t)
        \/ work_returns(t)
        \/ exit(t)
        \/ drop(t)
        \/ restore_environment(t)
        \/ restore_directory(t)
        \/ close(t)
        \/ drop_lock(t)

NestedSpec == NestedInit /\ [][NestedNext]_vars

\* t is inside blocking_lock() while it owns the guard of its live Playspace
WaitsForItself(t) ==
    /\ pc[t] = "blocking_lock"
    /\ lock[t]

\* C33: a thread that calls the blocking new (or scoped) while it owns a
\* live Playspace never returns from the call: from then on it stays inside
\* blocking_lock(), nothing is returned to it, and its session is never torn
\* down, so MUTEX stays locked. try_new called in the same situation can
\* always be taken, and returns AlreadyInSpace in that one step, leaving
\* the thread and its session as they were.
C33_NestedNewNeverReturns ==
    [][\A t \in Threads :
          /\ WaitsForItself(t) =>
                 /\ WaitsForItself(t)'
                 /\ MUTEX'
                 /\ ret'.by # t
                 /\ directory'[t] = directory[t]
          /\ ((new_holding_playspace(t) \/ scoped_holding_playspace(t))
                => WaitsForItself(t)')
          /\ (pc[t] = "active" /\ lock[t]) =>
                 /\ ENABLED try_new(t)
                 /\ try_new(t) =>
                        /\ ret' = Return(t, "AlreadyInSpace")
                        /\ pc' = pc
                        /\ lock' = lock
                        /\ UNCHANGED <<process_vars, session_vars>>]_vars

\* C33 witness: a thread is inside the blocking new it called from within
\* its own session; the other thread has entered blocking_lock() too and
\* waits behind it.
C33_Witness ==
    \E t \in Threads :
        /\ WaitsForItself(t)
        /\ mode[t] = "new"
        /\ cwd \in directory[t]
        /\ \E u \in Threads \ {t} : pc[u] = "blocking_lock" /\ ~lock[u]

\* the modes of the scoped forms that enter through try_new
TryScopedModes == {"try_scoped", "try_scoped_async"}

\* the step in which a scoped form hands the session to its work closure
WorkStarts(t) ==
    /\ pc[t] # "active"
    /\ pc'[t] = "active"
    /\ mode'[t] \in ScopedModes

\* C34: when the entry of a scoped form fails, its work closure is never run
\* and no teardown is performed. An I/O error is returned from tempdir()? or
\* set_current_dir()?, before the session has reached the closure: no
\* statement of exit_internal has run or runs, the environment and the
\* working directory are left as they are and the lock is given back.
\* AlreadyInSpace is returned by try_scoped and try_scoped_async alone, when
\* the lock is taken, in the step of the call and with nothing changed. The
\* work closure starts only in a session that holds the lock. try_scoped
\* and try_scoped_async can always be taken by an idle thread and never
\* stand waiting for the lock.
C34_FailedScopedEntryRunsNothing ==
    [][\A t \in Threads :
          /\ (ret'.by = t /\ ret'.value = "StdIo" /\ mode[t] \in ScopedModes) =>
                 /\ pc[t] \in {"tempdir", "set_current_dir"}
                 /\ pc'[t] = "idle"
                 /\ mode'[t] = "none"
                 /\ steps[t] = <<>> /\ steps'[t] = <<>>
                 /\ how[t] = "none" /\ how'[t] = "none"
                 /\ env' = env
                 /\ cwd' = cwd
                 /\ ~lock'[t]
          /\ (ret'.by = t /\ ret'.value = "AlreadyInSpace") =>
                 /\ try_scoped(t) \/ try_scoped_async(t)
                 /\ MUTEX
                 /\ UNCHANGED <<MUTEX, lock, pc, mode, process_vars,
                                session_vars, steps>>
          /\ WorkStarts(t) =>
                 /\ lock'[t]
                 /\ ret'.by # t
                 /\ cwd' \in directory'[t]
          /\ (try_scoped(t) \/ try_scoped_async(t)) =>
                 /\ pc'[t] \notin Waiting
                 /\ \/ ret' = Return(t, "AlreadyInSpace")
                    \/ pc'[t] = "from_lock" /\ lock'[t]
          /\ mode[t] \in TryScopedModes => pc[t] \notin Waiting
          /\ pc[t] = "idle" =>
                 /\ ENABLED try_scoped(t)
                 /\ ENABLED try_scoped_async(t)]_vars

\* C34 witness: try_scoped or try_scoped_async has just returned
\* AlreadyInSpace to an idle thread while the work closure of another
\* thread's scoped session runs.
C34_Witness ==
    \E t \in Threads :
        /\ ret = Return(t, "AlreadyInSpace")
        /\ pc[t] = "idle"
        /\ steps[t] = <<>>
        /\ \E u \in Threads \ {t} :
              /\ pc[u] = "active"
              /\ mode[u] \in ScopedModes

\* the longest prefix of p that exists on disk (the root always does)
NearestExistingAncestor(p, ds, fs) ==
    LET existing == {k \in 0..Len(p) : exists(SubSeq(p, 1, k), ds, fs)}
    IN SubSeq(p, 1, CHOOSE k \in existing : \A j \in existing : j <= k)

\* the nearest existing ancestor of p, canonicalized, lies within the
\* canonicalized directory d
AncestorInside(d, p, ds, fs) ==
    starts_with(canonicalize(NearestExistingAncestor(p, ds, fs), ds, fs),
                canonicalize(d, ds, fs))

\* the step in which a write operation given an absolute path returns to t
AbsoluteWriteReturns(t) ==
    /\ ret'.by = t
    /\ ret'.arg # NoPath
    /\ ret'.arg.abs

\* what a write operation given an absolute path shows of playspace_path's
\* decision, in a session whose scratch directory is d: refused with
\* OutsidePlayspace, the requested path carried and the disk untouched, if
\* the nearest existing ancestor does not lie within d; otherwise the path
\* went unchanged to the file system, which made the entry at that place or
\* failed on its own
DecidesOnNearestAncestor(d) ==
    IF AncestorInside(d, ret'.arg.comps, dirs, files)
    THEN /\ ret'.value \in {"Ok", "File", "StdIo"}
         /\ ret'.value \in {"Ok", "File"} =>
                Normalized(ret'.arg.comps) \in dirs' \cup DOMAIN files'
    ELSE /\ ret'.value = "OutsidePlayspace"
         /\ ret'.path = ret'.arg
         /\ UNCHANGED <<dirs, files>>

\* C35 (as amended): while the scratch directory exists, playspace_path
\* decides an absolute path on its nearest existing ancestor only: the path
\* is accepted, and goes unchanged to the file system, if and only if that
\* ancestor, canonicalized, lies within the canonicalized scratch directory,
\* and is refused with OutsidePlayspace carrying the requested path
\* otherwise. When the scratch directory is gone its canonicalize fails:
\* the result is that I/O error, whatever the path, and nothing is written.
C35_NearestAncestorDecides ==
    [][\A t \in PathThreads :
          AbsoluteWriteReturns(t) =>
              \A d \in directory[t] :
                  IF exists(d, dirs, files)
                  THEN DecidesOnNearestAncestor(d)
                  ELSE /\ ret'.value = "StdIo"
                       /\ UNCHANGED <<dirs, files>>]_vars

\* C35 as stated: the path is accepted or refused with OutsidePlayspace on
\* its nearest existing ancestor, whatever the state of the scratch
\* directory.
C35_OkOrOutsidePlayspace ==
    [][\A t \in PathThreads :
          AbsoluteWriteReturns(t) =>
              \A d \in directory[t] : DecidesOnNearestAncestor(d)]_vars

\* C35 witness: create_dir_all has accepted an absolute path two levels
\* below the scratch directory, of which at most the first level existed:
\* the decision was taken on an ancestor.
C35_Witness ==
    \E t \in PathThreads : \E d \in directory[t] :
        /\ ret.by = t /\ ret.value = "Ok"
        /\ ret.arg.abs
        /\ Len(ret.arg.comps) = Len(d) + 2
        /\ starts_with(ret.arg.comps, d)
        /\ ret.arg.comps \in dirs

\* C36: path resolution is idempotent on accepted paths: whenever
\* playspace_path accepts the path given to create_dir_all of sync.rs or
\* asynk.rs, playspace_path applied to its result accepts it too and
\* returns the same path, so that the operation, which resolves twice, does
\* what std::fs::create_dir_all does on the path resolved once.
C36_ResolutionIdempotent ==
    [][\A t \in PathThreads :
          sync_create_dir_all(t) =>
              \A d \in directory[t] :
                  LET r == playspace_path(d, ret'.arg, dirs, files)
                      again == playspace_path(d, [abs |-> TRUE,
                                                  comps |-> r.path],
                                              dirs, files)
                      m == CreateDirAll(r.path, dirs, files)
                  IN r.result = "Ok" =>
                         /\ again.result = "Ok"
                         /\ again.path = r.path
                         /\ dirs' = m.dirs
                         /\ ret'.value = (IF m.ok THEN "Ok" ELSE "StdIo")]_vars

====
